---- MODULE Spec2Model ----
(***************************************************************************)
(* Model of the history-ingestion core of git-metrics                      *)
(* (src/src/git_metrics/core/python_git.py, GitPythonCollector).           *)
(*                                                                         *)
(* Text is a sequence of characters.  A character is the one-character     *)
(* string for printable ASCII and for "\t", "\n", "\r", "\f"; any other    *)
(* character is "U+XXXX", its code point (so NBSP is "U+00A0").            *)
(***************************************************************************)
EXTENDS Integers, Sequences, FiniteSets, TLC

Min(a, b) == IF a < b THEN a ELSE b

Range(s) == {s[i] : i \in DOMAIN s}

RECURSIVE FlattenSeq(_)
FlattenSeq(ss) == IF ss = <<>> THEN <<>> ELSE Head(ss) \o FlattenSeq(Tail(ss))

(* ---------------------------------------------------------------------- *)
(* Python str operations on character sequences                            *)
(* ---------------------------------------------------------------------- *)
(* the characters of an ASCII string literal *)
Chars(s) == [i \in 1..Len(s) |-> SubSeq(s, i, i)]

(* the string a character sequence spells *)
RECURSIVE Str(_)
Str(x) == IF x = <<>> THEN "" ELSE Head(x) \o Str(Tail(x))

(* the characters for which str.isspace() holds *)
Whitespace ==
  {" ", "\t", "\n", "\r", "\f", "U+000B", "U+001C", "U+001D", "U+001E", "U+001F",
   "U+0085", "U+00A0", "U+1680", "U+2000", "U+2001", "U+2002", "U+2003", "U+2004",
   "U+2005", "U+2006", "U+2007", "U+2008", "U+2009", "U+200A", "U+2028", "U+2029",
   "U+202F", "U+205F", "U+3000"}

RECURSIVE StripCL(_), StripCR(_)
StripCL(x) == IF x # <<>> /\ Head(x) \in Whitespace THEN StripCL(Tail(x)) ELSE x
StripCR(x) == IF x # <<>> /\ x[Len(x)] \in Whitespace
              THEN StripCR(SubSeq(x, 1, Len(x) - 1)) ELSE x
(* str.strip() *)
StripC(x) == StripCR(StripCL(x))

RECURSIVE SortedPts(_)
SortedPts(S) == IF S = {} THEN <<>>
                ELSE LET m == CHOOSE x \in S : \A y \in S : x <= y
                     IN <<m>> \o SortedPts(S \ {m})

(* the pieces of x around the separators that start at the increasing   *)
(* positions P, each separator being L characters long                     *)
Pieces(x, P, L) ==
  LET n == Len(P)
  IN [j \in 1..(n + 1) |->
        SubSeq(x, IF j = 1 THEN 1 ELSE P[j - 1] + L,
                  IF j = n + 1 THEN Len(x) ELSE P[j] - 1)]

(* str.split(c) for a one-character separator *)
SplitC(x, c) == Pieces(x, SortedPts({i \in DOMAIN x : x[i] = c}), 1)

(* str.split(sep) for a longer separator: leftmost non-overlapping matches *)
Occurrences(x, sep) ==
  {i \in 1..(Len(x) - Len(sep) + 1) : SubSeq(x, i, i + Len(sep) - 1) = sep}

RECURSIVE NonOverlapping(_, _, _)
NonOverlapping(ps, L, from) ==
  IF ps = <<>> THEN <<>>
  ELSE IF Head(ps) >= from THEN <<Head(ps)>> \o NonOverlapping(Tail(ps), L, Head(ps) + L)
  ELSE NonOverlapping(Tail(ps), L, from)

SplitStr(x, sep) ==
  Pieces(x, NonOverlapping(SortedPts(Occurrences(x, sep)), Len(sep), 1), Len(sep))

(* str.split() : runs of whitespace separate, empty pieces dropped *)
RECURSIVE SplitWsAcc(_, _, _)
SplitWsAcc(x, cur, acc) ==
  IF x = <<>> THEN (IF cur = <<>> THEN acc ELSE Append(acc, cur))
  ELSE IF Head(x) \in Whitespace
       THEN SplitWsAcc(Tail(x), <<>>, IF cur = <<>> THEN acc ELSE Append(acc, cur))
  ELSE SplitWsAcc(Tail(x), Append(cur, Head(x)), acc)
SplitWs(x) == SplitWsAcc(x, <<>>, <<>>)

(* "sep".join(ls) for a one-character separator *)
RECURSIVE JoinC(_, _)
JoinC(ls, c) == IF ls = <<>> THEN <<>>
                ELSE IF Len(ls) = 1 THEN Head(ls)
                ELSE Head(ls) \o <<c>> \o JoinC(Tail(ls), c)

(* substring test: pat in x *)
ContainsC(x, pat) ==
  \E i \in 0..(Len(x) - Len(pat)) : SubSeq(x, i + 1, i + Len(pat)) = pat

(* str.count(c) *)
CountC(x, c) == Cardinality({i \in DOMAIN x : x[i] = c})

(* x.startswith(c) for a one-character prefix *)
StartsWith(x, c) == x # <<>> /\ Head(x) = c

(* ---------------------------------------------------------------------- *)
(* _parse_commits_chunk                                                    *)
(* ---------------------------------------------------------------------- *)
StartSep == Chars("COMMIT_START\n")
EndLine == Chars("COMMIT_END")

(* data.split("COMMIT_START\n")[1:] *)
SplitOnStart(data) == Tail(SplitStr(data, StartSep))

StatusCountsDeleteAsAdd(status) ==
  IF StartsWith(status, "A") THEN <<1, 0>>
  ELSE IF StartsWith(status, "D") THEN <<1, 0>>
  ELSE <<1, 1>>

(* status.startswith("A") / ("D") -> synthesised (additions, deletions) *)
StatusCounts(status) ==
  IF StartsWith(status, "A") THEN <<1, 0>>
  ELSE IF StartsWith(status, "D") THEN <<0, 1>>
  ELSE <<1, 1>>

(* one file line: parts = line.strip().split("\t"), len(parts) >= 2 *)
FileOfLine(l) ==
  LET parts == SplitC(StripC(l), "\t")
      c == StatusCounts(parts[1])
  IN [filename |-> parts[2], status |-> parts[1],
      additions |-> c[1], deletions |-> c[2]]

(* one raw commit chunk (commit_data): <<>> when it is skipped, else the   *)
(* one commit record it yields                                             *)
ParseCommit(data) ==
  LET lines == SplitC(data, "\n")
  IN IF EndLine \notin Range(lines) THEN <<>>
     ELSE
       LET endIndex == CHOOSE e \in DOMAIN lines :
                         lines[e] = EndLine /\ \A x \in 1..(e - 1) : lines[x] # EndLine
           fileIdx == {i \in 5..(endIndex - 1) :
                         StripC(lines[i]) # <<>> /\ Len(SplitC(StripC(lines[i]), "\t")) >= 2}
           idxSeq == SortedPts(fileIdx)
       IN IF Len(lines) >= 4
          THEN <<[hash |-> lines[1], author |-> lines[2], date |-> lines[3],
                  message |-> lines[4],
                  files |-> [k \in 1..Len(idxSeq) |-> FileOfLine(lines[idxSeq[k]])]]>>
          ELSE <<>>

RECURSIVE ParseUntilTruncated(_)
ParseUntilTruncated(chunk) ==
  IF chunk = <<>> THEN <<>>
  ELSE IF EndLine \notin Range(SplitC(Head(chunk), "\n")) THEN <<>>
  ELSE ParseCommit(Head(chunk)) \o ParseUntilTruncated(Tail(chunk))

ParseCommitsChunkBreak(chunk) == ParseUntilTruncated(chunk)

(* GitPythonCollector._parse_commits_chunk *)
ParseCommitsChunk(chunk) ==
  FlattenSeq([j \in 1..Len(chunk) |-> ParseCommit(chunk[j])])

(* GitPythonCollector._split_list *)
RECURSIVE SplitAux(_, _, _, _, _)
SplitAux(lst, k, avg, rem, i) ==
  IF k = 0 THEN <<>>
  ELSE LET size == IF rem > 0 THEN avg + 1 ELSE avg
       IN <<SubSeq(lst, i + 1, Min(i + size, Len(lst)))>>
          \o SplitAux(lst, k - 1, avg, rem - (IF rem > 0 THEN 1 ELSE 0), i + size)

SplitList(lst, numChunks) ==
  SplitAux(lst, numChunks, Len(lst) \div numChunks, Len(lst) % numChunks, 0)

(* ---------------------------------------------------------------------- *)
(* Output of fetch_commits_batch:                                          *)
(*   git log --pretty=format:COMMIT_START%n%H%n%an%n%ad%n%s%n%b%nCOMMIT_END *)
(*           --name-status                                                 *)
(* per commit: sentinel, hash, author, date, subject, body lines, the ""  *)
(* line from %b's newline, COMMIT_END, then the name-status lines; commits *)
(* are separated by an empty line and the output ends with a newline.      *)
(* A descriptor gives the subject, the body lines, the name-status         *)
(* entries <<status, path>>, and wf = FALSE for a chunk truncated of its   *)
(* COMMIT_END.                                                             *)
(* ---------------------------------------------------------------------- *)
Hashes == <<"h1", "h2", "h3", "h4", "h5">>

NsLine(e) == Chars(e[1]) \o <<"\t">> \o Chars(e[2])

CommitLinesBy(d, i, au) ==
  <<Chars("COMMIT_START"), Chars(Hashes[i]), au, Chars("d"), Chars(d.subj)>>
  \o d.body \o <<<<>>>> \o (IF d.wf THEN <<EndLine>> ELSE <<>>)
  \o [k \in 1..Len(d.ns) |-> NsLine(d.ns[k])]

CommitLines(d, i) == CommitLinesBy(d, i, Chars("a"))

(* the whole output: the lines joined with "\n" *)
LogText(ds) ==
  JoinC(FlattenSeq([i \in 1..Len(ds) |-> CommitLines(ds[i], i) \o <<<<>>>>]), "\n")

(* ---------------------------------------------------------------------- *)
(* parse_commit_data: fan-out of _parse_commits_chunk over the slices of   *)
(* _split_list(raw_commits, os.cpu_count()), fan-in through                *)
(* ProcessPoolExecutor().map, which yields the slices' results in order.   *)
(* ---------------------------------------------------------------------- *)
MaxCommits == 3
MaxCpu == 3

(* body lines: none, or a plain line among lines that look like          *)
(* name-status entries, with surrounding whitespace (space, NBSP, carriage *)
(* return)                                                                 *)
Bodies == {<<>>,
           <<Chars(" A\tg"), Chars("b"), Chars("D\th") \o <<"U+00A0">>,
             Chars("R100\tg\th\r")>>}
NameStatuses == {<<<<"M", "f">>>>, <<<<"A", "f">>, <<"D", "g">>>>}
(* a subject that ends in the start sentinel *)
SentinelSubject == [body |-> <<Chars("b")>>, ns |-> <<<<"M", "f">>>>, wf |-> TRUE,
                    subj |-> "see COMMIT_START"]
Descs == [body : Bodies, ns : NameStatuses, wf : BOOLEAN, subj : {"s"}]
         \cup {SentinelSubject}
DescSeqs == UNION {[1..n -> Descs] : n \in 0..MaxCommits}

VARIABLES descs, cpu, raw, slices, wdone, wout, consumed, result, ppc

parseVars == <<descs, cpu, raw, slices, wdone, wout, consumed, result, ppc>>

ParseInit ==
  /\ descs \in DescSeqs
  /\ cpu \in 1..MaxCpu
  /\ raw = <<>>
  /\ slices = <<>>
  /\ wdone = <<>>
  /\ wout = <<>>
  /\ consumed = 0
  /\ result = <<>>
  /\ ppc = "fetched"

(* data.split("COMMIT_START\n")[1:], _split_list and executor.submit *)
FanOut ==
  /\ ppc = "fetched"
  /\ raw' = SplitOnStart(LogText(descs))
  /\ slices' = SplitList(raw', cpu)
  /\ wdone' = [i \in 1..cpu |-> FALSE]
  /\ wout' = [i \in 1..cpu |-> <<>>]
  /\ ppc' = "running"
  /\ UNCHANGED <<descs, cpu, consumed, result>>

(* a worker process parses its slice *)
WorkerFinish ==
  \E i \in 1..cpu :
    /\ ppc = "running"
    /\ ~wdone[i]
    /\ wdone' = [wdone EXCEPT ![i] = TRUE]
    /\ wout' = [wout EXCEPT ![i] = ParseCommitsChunk(slices[i])]
    /\ UNCHANGED <<descs, cpu, raw, slices, consumed, result, ppc>>

(* the map iterator yields the next slice's result once it is ready; *)
(* commits.extend(...)                                               *)
Gather ==
  /\ ppc = "running"
  /\ consumed < Len(slices)
  /\ wdone[consumed + 1]
  /\ result' = result \o wout[consumed + 1]
  /\ consumed' = consumed + 1
  /\ ppc' = IF consumed + 1 = Len(slices) THEN "done" ELSE "running"
  /\ UNCHANGED <<descs, cpu, raw, slices, wdone, wout>>

ParseIdle ==
  /\ descs = <<>> /\ cpu = 1 /\ raw = <<>> /\ slices = <<>> /\ wdone = <<>>
  /\ wout = <<>> /\ consumed = 0 /\ result = <<>> /\ ppc = "idle"

(* ---------------------------------------------------------------------- *)
(* Python values and their JSON text (json.dump / json.load)               *)
(* A Python value is a record [t, s, n, items]; a JSON text is a sequence  *)
(* of tokens [k, s, n].                                                    *)
(* ---------------------------------------------------------------------- *)
PyStr(x) == [t |-> "str", s |-> x, n |-> 0, items |-> <<>>]
PyInt(x) == [t |-> "int", s |-> "", n |-> x, items |-> <<>>]
PyNone == [t |-> "null", s |-> "", n |-> 0, items |-> <<>>]
PyList(xs) == [t |-> "list", s |-> "", n |-> 0, items |-> xs]
PyKV(key, val) == [t |-> "kv", s |-> key, n |-> 0, items |-> <<val>>]
PyDict(kvs) == [t |-> "dict", s |-> "", n |-> 0, items |-> kvs]

Tok(kind) == [k |-> kind, s |-> "", n |-> 0]
StrTok(x) == [k |-> "str", s |-> x, n |-> 0]
NumTok(x) == [k |-> "num", s |-> "", n |-> x]

RECURSIVE Intersperse(_)
Intersperse(ts) == IF ts = <<>> THEN <<>>
                   ELSE IF Len(ts) = 1 THEN Head(ts)
                   ELSE Head(ts) \o <<Tok(",")>> \o Intersperse(Tail(ts))

(* json.dump *)
RECURSIVE Enc(_)
Enc(v) ==
  CASE v.t = "str" -> <<StrTok(v.s)>>
    [] v.t = "int" -> <<NumTok(v.n)>>
    [] v.t = "null" -> <<Tok("null")>>
    [] v.t = "list" ->
         <<Tok("[")>> \o Intersperse([i \in 1..Len(v.items) |-> Enc(v.items[i])])
                      \o <<Tok("]")>>
    [] v.t = "dict" ->
         <<Tok("{")>>
         \o Intersperse([i \in 1..Len(v.items) |->
                           <<StrTok(v.items[i].s), Tok(":")>> \o Enc(v.items[i].items[1])])
         \o <<Tok("}")>>

(* json.load: recursive descent; Fail on a JSONDecodeError *)
Fail == [ok |-> FALSE, val |-> PyNone, pos |-> 0]
Ok(v, p) == [ok |-> TRUE, val |-> v, pos |-> p]
IsTok(ts, p, kind) == p <= Len(ts) /\ ts[p].k = kind

(* d[key] = value while decoding an object: a repeated key keeps its     *)
(* first position and takes the last value                                 *)
AddMember(acc, kv) ==
  IF \E i \in DOMAIN acc : acc[i].s = kv.s
  THEN [i \in DOMAIN acc |-> IF acc[i].s = kv.s THEN kv ELSE acc[i]]
  ELSE Append(acc, kv)

RECURSIVE DecVal(_, _), DecItems(_, _, _), DecMembers(_, _, _)
DecVal(ts, p) ==
  IF p > Len(ts) THEN Fail
  ELSE CASE ts[p].k = "str" -> Ok(PyStr(ts[p].s), p + 1)
         [] ts[p].k = "num" -> Ok(PyInt(ts[p].n), p + 1)
         [] ts[p].k = "null" -> Ok(PyNone, p + 1)
         [] ts[p].k = "[" -> IF IsTok(ts, p + 1, "]") THEN Ok(PyList(<<>>), p + 2)
                             ELSE DecItems(ts, p + 1, <<>>)
         [] ts[p].k = "{" -> IF IsTok(ts, p + 1, "}") THEN Ok(PyDict(<<>>), p + 2)
                             ELSE DecMembers(ts, p + 1, <<>>)
         [] OTHER -> Fail

DecItems(ts, p, acc) ==
  LET r == DecVal(ts, p)
  IN IF ~r.ok THEN Fail
     ELSE IF IsTok(ts, r.pos, ",") THEN DecItems(ts, r.pos + 1, Append(acc, r.val))
     ELSE IF IsTok(ts, r.pos, "]") THEN Ok(PyList(Append(acc, r.val)), r.pos + 1)
     ELSE Fail

DecMembers(ts, p, acc) ==
  IF ~(IsTok(ts, p, "str") /\ IsTok(ts, p + 1, ":")) THEN Fail
  ELSE LET r == DecVal(ts, p + 2)
           kv == PyKV(ts[p].s, r.val)
       IN IF ~r.ok THEN Fail
          ELSE IF IsTok(ts, r.pos, ",") THEN DecMembers(ts, r.pos + 1, AddMember(acc, kv))
          ELSE IF IsTok(ts, r.pos, "}") THEN Ok(PyDict(AddMember(acc, kv)), r.pos + 1)
          ELSE Fail

JsonLoad(ts) ==
  LET r == DecVal(ts, 1) IN IF r.ok /\ r.pos = Len(ts) + 1 THEN r ELSE Fail

(* the commit dictionaries built by _parse_commits_chunk *)
FileToPy(f) ==
  PyDict(<<PyKV("filename", PyStr(Str(f.filename))), PyKV("status", PyStr(Str(f.status))),
           PyKV("additions", PyInt(f.additions)), PyKV("deletions", PyInt(f.deletions))>>)

CommitToPy(c) ==
  PyDict(<<PyKV("hash", PyStr(Str(c.hash))), PyKV("author", PyStr(Str(c.author))),
           PyKV("date", PyStr(Str(c.date))), PyKV("message", PyStr(Str(c.message))),
           PyKV("files", PyList([k \in 1..Len(c.files) |-> FileToPy(c.files[k])]))>>)

CommitsToPy(cs) == PyList([i \in 1..Len(cs) |-> CommitToPy(cs[i])])

(* ---------------------------------------------------------------------- *)
(* The on-disk cache and collect_history / clear_cache                     *)
(* ---------------------------------------------------------------------- *)
CacheMaxAge == 86400
MaxEvents == 3

(* the repository: its history, newest first, is fixed *)
RepoDescs ==
  <<[body |-> <<>>, ns |-> <<<<"M", "f">>>>, wf |-> TRUE, subj |-> "s"],
    [body |-> <<Chars("A\tg")>>, ns |-> <<<<"A", "f">>>>, wf |-> TRUE, subj |-> "s"]>>

(* collector configuration (GitPythonCollector.__init__): repo_path "/r",  *)
(* max_commits None or 1, since_days None                                  *)
RepoAbsPath == "/r"
Configs == [mc : {"all", "1"}]

(* get_cache_key: md5(f"{abs}_{max_commits}_{since_days}"); the digest is  *)
(* taken as injective on key strings.                                      *)
KeyOf(cfg) == RepoAbsPath \o "_" \o cfg.mc \o "_" \o "all"
Keys == {KeyOf(c) : c \in Configs}

(* git log ... -n max_commits *)
LogOf(cfg) == IF cfg.mc = "all" THEN LogText(RepoDescs)
              ELSE LogText(SubSeq(RepoDescs, 1, 1))

(* parse_commit_data: results of the slices concatenated in slice order *)
ParseCommitData(data, ncpu) ==
  LET sl == SplitList(SplitOnStart(data), ncpu)
  IN FlattenSeq([i \in 1..Len(sl) |-> ParseCommitsChunk(sl[i])])

(* the history each configuration's git log yields, parsed on ncpu       *)
(* slices, and its JSON text: constant tables TLC evaluates once          *)
ParsedPy == [m \in {"all", "1"}, n \in 1..MaxCpu |->
               CommitsToPy(ParseCommitData(LogOf([mc |-> m]), n))]

(* process_commit_batch: `show --pretty=format:"%an|%ad|%s" --no-patch`  *)
(* gives author, date and subject; `show --name-status --pretty=format:`  *)
(* gives the stripped status lines split on tab, A -> (1, 0),              *)
(* D -> (0, 1), anything else -> (1, 1)                                    *)
LegacyFileOfLine(line) ==
  LET parts == SplitC(StripC(line), "\t")
      st == parts[1]
  IN [filename |-> parts[2], status |-> st,
      additions |-> IF st # <<>> /\ Head(st) = "D" THEN 0 ELSE 1,
      deletions |-> IF st # <<>> /\ Head(st) = "A" THEN 0 ELSE 1]

LegacyCommit(d, i) ==
  LET lines == [k \in 1..Len(d.ns) |-> NsLine(d.ns[k])]
      idx == SortedPts({k \in DOMAIN lines : StripC(lines[k]) # <<>>
                                             /\ Len(SplitC(StripC(lines[k]), "\t")) >= 2})
  IN [hash |-> Chars(Hashes[i]), author |-> Chars("a"), date |-> Chars("d"),
      message |-> Chars(d.subj),
      files |-> [k \in 1..Len(idx) |-> LegacyFileOfLine(lines[idx[k]])]]

(* `log --pretty=format:%H [-n max_commits]`, then one batch of at most  *)
(* 20 hashes processed in order                                            *)
LegacyHistory(cfg) ==
  LET ds == IF cfg.mc = "all" THEN RepoDescs ELSE SubSeq(RepoDescs, 1, 1)
  IN [i \in 1..Len(ds) |-> LegacyCommit(ds[i], i)]

LegacyPy == [m \in {"all", "1"} |-> CommitsToPy(LegacyHistory([mc |-> m]))]

(* a list GitMetricsCore.save_to_cache may be handed: one commit         *)
LegacySaved ==
  {PyList(<<CommitToPy([hash |-> Chars("x"), author |-> Chars("legacy"), date |-> Chars("d"),
                        message |-> Chars("m"), files |-> <<>>])>>)}

EncTable == [v \in {ParsedPy[x] : x \in DOMAIN ParsedPy} \cup Range(LegacyPy) \cup LegacySaved |-> Enc(v)]
BadToks == {<<Tok("{")>>, <<Tok("null")>>, <<>>}
DecTable == [ts \in {EncTable[v] : v \in DOMAIN EncTable} \cup BadToks |-> JsonLoad(ts)]
EncMemo(v) == IF v \in DOMAIN EncTable THEN EncTable[v] ELSE Enc(v)
LoadMemo(ts) == IF ts \in DOMAIN DecTable THEN DecTable[ts] ELSE JsonLoad(ts)

(* a cache file: kind "json" holds the JSON text toks; "badutf8" holds     *)
(* bytes that are not UTF-8; "unreadable" cannot be opened (permissions,  *)
(* a directory of that name) for reading or writing.                       *)
Absent == [ex |-> FALSE, kind |-> "json", toks |-> <<>>, mtime |-> 0]

LoadFromCacheAgeInverted(e, now) ==
  IF ~e.ex THEN [outcome |-> "miss", val |-> PyNone]
  ELSE IF now - e.mtime > CacheMaxAge
  THEN CASE e.kind = "unreadable" -> [outcome |-> "miss", val |-> PyNone]
         [] e.kind = "badutf8" -> [outcome |-> "crash", val |-> PyNone]
         [] OTHER ->
              LET r == LoadMemo(e.toks)
              IN IF ~r.ok THEN [outcome |-> "miss", val |-> PyNone]
                 ELSE IF r.val.t \in {"list", "dict", "str"}
                      THEN [outcome |-> "hit", val |-> r.val]
                      ELSE [outcome |-> "crash", val |-> PyNone]
  ELSE [outcome |-> "miss", val |-> PyNone]

(* load_from_cache *)
LoadFromCache(e, now) ==
  IF ~e.ex THEN [outcome |-> "miss", val |-> PyNone]
  ELSE IF now - e.mtime < CacheMaxAge
  THEN CASE e.kind = "unreadable" -> [outcome |-> "miss", val |-> PyNone]   \* IOError
         [] e.kind = "badutf8" -> [outcome |-> "crash", val |-> PyNone]     \* UnicodeDecodeError
         [] OTHER ->
              LET r == LoadMemo(e.toks)
              IN IF ~r.ok THEN [outcome |-> "miss", val |-> PyNone]         \* JSONDecodeError
                 ELSE IF r.val.t \in {"list", "dict", "str"}
                      THEN [outcome |-> "hit", val |-> r.val]
                      ELSE [outcome |-> "crash", val |-> PyNone]           \* len() TypeError
  ELSE [outcome |-> "miss", val |-> PyNone]

(* save_to_cache: IOError on open is caught and the file left as it was *)
SaveToCache(e, py, now) ==
  IF e.ex /\ e.kind = "unreadable" THEN e
  ELSE [ex |-> TRUE, kind |-> "json", toks |-> EncMemo(py), mtime |-> now]

VARIABLES cache, clock, events, vcsCount

cacheVars == <<cache, clock, events, vcsCount>>

PriorEntries(k) ==
  LET cfg == CHOOSE c \in Configs : KeyOf(c) = k
      good == EncTable[ParsedPy[cfg.mc, 1]]
  IN {Absent} \cup
     [ex : {TRUE}, kind : {"json"}, toks : {good},
      mtime : {0, -CacheMaxAge}] \cup
     [ex : {TRUE}, kind : {"json"}, toks : {<<Tok("{")>>, <<Tok("null")>>},
      mtime : {0}] \cup
     [ex : {TRUE}, kind : {"badutf8", "unreadable"}, toks : {<<>>},
      mtime : {0}]

CacheInit ==
  /\ cache \in [Keys -> UNION {PriorEntries(k) : k \in Keys}]
  /\ \A k \in Keys : cache[k] \in PriorEntries(k)
  /\ clock = 0
  /\ events = <<>>
  /\ vcsCount = 0

(* save_to_cache runs after the git log subprocess and the parse, so the  *)
(* file's mtime is later than the time.time() load_from_cache compared it  *)
(* with: one time unit later                                               *)
SaveLag == 1

CollectHistorySavesOnError ==
  \E cfg \in Configs, ncpu \in 1..MaxCpu :
    LET k == KeyOf(cfg)
        e == cache[k]
        ld == LoadFromCache(e, clock)
        py == ParsedPy[cfg.mc, ncpu]
    IN /\ Len(events) < MaxEvents
       /\ IF ld.outcome = "miss"
          THEN /\ vcsCount' = vcsCount + 1
               /\ \E gitOk \in BOOLEAN :
                    IF gitOk
                    THEN /\ cache' = [cache EXCEPT ![k] = SaveToCache(e, py, clock + SaveLag)]
                         /\ events' = Append(events,
                              [op |-> "collect", cfg |-> cfg, t |-> clock, outcome |-> "miss",
                               res |-> py, vcs |-> 1, saved |-> ~(e.ex /\ e.kind = "unreadable"), err |-> FALSE])
                    ELSE /\ cache' = [cache EXCEPT ![k] = SaveToCache(e, PyList(<<>>), clock + SaveLag)]
                         /\ events' = Append(events,
                              [op |-> "collect", cfg |-> cfg, t |-> clock, outcome |-> "miss",
                               res |-> PyNone, vcs |-> 1, saved |-> ~(e.ex /\ e.kind = "unreadable"), err |-> TRUE])
          ELSE /\ events' = Append(events,
                    [op |-> "collect", cfg |-> cfg, t |-> clock, outcome |-> ld.outcome,
                     res |-> ld.val, vcs |-> 0, saved |-> FALSE, err |-> FALSE])
               /\ UNCHANGED <<cache, vcsCount>>
       /\ UNCHANGED clock

(* collect_history on a collector configured with cfg: on a cache miss   *)
(* fetch_commits_batch runs git log once through run_git_command, whose   *)
(* non-zero exit (including the shell's 127 when git is not found)        *)
(* raises Exception("Git command failed: " + stderr) before save_to_cache  *)
CollectHistory ==
  \E cfg \in Configs, ncpu \in 1..MaxCpu :
    LET k == KeyOf(cfg)
        e == cache[k]
        ld == LoadFromCache(e, clock)
        py == ParsedPy[cfg.mc, ncpu]
    IN /\ Len(events) < MaxEvents
       /\ IF ld.outcome = "miss"
          THEN /\ vcsCount' = vcsCount + 1
               /\ \E gitOk \in BOOLEAN :
                    IF gitOk
                    THEN /\ cache' = [cache EXCEPT ![k] = SaveToCache(e, py, clock + SaveLag)]
                         /\ events' = Append(events,
                              [op |-> "collect", cfg |-> cfg, t |-> clock, outcome |-> "miss",
                               res |-> py, vcs |-> 1, saved |-> ~(e.ex /\ e.kind = "unreadable"), err |-> FALSE])
                    ELSE /\ cache' = cache
                         /\ events' = Append(events,
                              [op |-> "collect", cfg |-> cfg, t |-> clock, outcome |-> "miss",
                               res |-> PyNone, vcs |-> 1, saved |-> FALSE, err |-> TRUE])
          ELSE /\ events' = Append(events,
                    [op |-> "collect", cfg |-> cfg, t |-> clock, outcome |-> ld.outcome,
                     res |-> ld.val, vcs |-> 0, saved |-> FALSE, err |-> FALSE])
               /\ UNCHANGED <<cache, vcsCount>>
       /\ UNCHANGED clock

(* save_to_cache(commits) called directly, with an empty commit list, on *)
(* a collector for the whole history (max_commits None)                  *)
SaveToCacheCall ==
  LET cfg == [mc |-> "all"]
      k == KeyOf(cfg)
      v == PyList(<<>>)
      e == cache[k]
  IN /\ Len(events) < MaxEvents
     /\ cache' = [cache EXCEPT ![k] = SaveToCache(e, v, clock)]
     /\ events' = Append(events,
          [op |-> "save", cfg |-> cfg, t |-> clock, outcome |-> "none", res |-> v,
           vcs |-> 0, saved |-> ~(e.ex /\ e.kind = "unreadable"),
           err |-> FALSE])
     /\ UNCHANGED <<clock, vcsCount>>

(* GitMetricsCore (core.py, used by main.py): the same cache directory   *)
(* and the same key string, so the same file as a GitPythonCollector      *)
(* with that configuration.  Its load_from_cache reads the file with      *)
(* json.load, catching JSONDecodeError and IOError, then len() of the      *)
(* value: LoadFromCache; its save_to_cache writes json.dump under "w" and  *)
(* catches IOError: SaveToCache.                                           *)

(* GitMetricsCore.collect_history: load_from_cache, else git log (whose   *)
(* failure raises out of run_git_command), two git show per commit, and    *)
(* save_to_cache of the commits                                            *)
LegacyCollectHistory ==
  \E cfg \in Configs :
    LET k == KeyOf(cfg)
        e == cache[k]
        ld == LoadFromCache(e, clock)
        py == LegacyPy[cfg.mc]
        nshow == 2 * Len(LegacyHistory(cfg))
    IN /\ Len(events) < MaxEvents
       /\ IF ld.outcome = "miss"
          THEN \E gitOk \in BOOLEAN :
                 IF gitOk
                 THEN /\ vcsCount' = vcsCount + 1 + nshow
                      /\ cache' = [cache EXCEPT ![k] = SaveToCache(e, py, clock + SaveLag)]
                      /\ events' = Append(events,
                           [op |-> "lcollect", cfg |-> cfg, t |-> clock, outcome |-> "miss",
                            res |-> py, vcs |-> 1 + nshow, saved |-> ~(e.ex /\ e.kind = "unreadable"),
                            err |-> FALSE])
                 ELSE /\ vcsCount' = vcsCount + 1
                      /\ cache' = cache
                      /\ events' = Append(events,
                           [op |-> "lcollect", cfg |-> cfg, t |-> clock, outcome |-> "miss",
                            res |-> PyNone, vcs |-> 1, saved |-> FALSE, err |-> TRUE])
          ELSE /\ events' = Append(events,
                    [op |-> "lcollect", cfg |-> cfg, t |-> clock, outcome |-> ld.outcome,
                     res |-> ld.val, vcs |-> 0, saved |-> FALSE, err |-> FALSE])
               /\ UNCHANGED <<cache, vcsCount>>
       /\ UNCHANGED clock

(* GitMetricsCore.save_to_cache(commits) called directly, on a core for *)
(* the whole history (max_commits None)                                  *)
LegacySaveToCache ==
  \E cfg \in {[mc |-> "all"]}, v \in LegacySaved :
    LET k == KeyOf(cfg)
        e == cache[k]
    IN /\ Len(events) < MaxEvents
       /\ cache' = [cache EXCEPT ![k] = SaveToCache(e, v, clock)]
       /\ events' = Append(events,
            [op |-> "lsave", cfg |-> cfg, t |-> clock, outcome |-> "none", res |-> v,
             vcs |-> 0, saved |-> ~(e.ex /\ e.kind = "unreadable"), err |-> FALSE])
       /\ UNCHANGED <<clock, vcsCount>>

ClearCacheOneKey ==
  /\ Len(events) < MaxEvents
  /\ cache' = [cache EXCEPT ![KeyOf([mc |-> "all"])] = Absent]
  /\ events' = Append(events,
       [op |-> "clear", cfg |-> [mc |-> "all"], t |-> clock,
        outcome |-> "none", res |-> PyNone, vcs |-> 0, saved |-> FALSE,
        err |-> FALSE])
  /\ UNCHANGED <<clock, vcsCount>>

(* clear_cache (GitAnalyzer.clear_cache delegates to it): the directory   *)
(* exists (the constructor creates it), so rmtree + makedirs empties it    *)
ClearCache ==
  /\ Len(events) < MaxEvents
  /\ cache' = [k \in Keys |-> Absent]
  /\ events' = Append(events,
       [op |-> "clear", cfg |-> [mc |-> "all"], t |-> clock,
        outcome |-> "none", res |-> PyNone, vcs |-> 0, saved |-> FALSE,
        err |-> FALSE])
  /\ UNCHANGED <<clock, vcsCount>>

(* wall-clock time passes between runs; the instants sampled are the     *)
(* start, just under and exactly at the 24-hour age limit                  *)
TimePoints == {0, CacheMaxAge - 1, CacheMaxAge}

Advance ==
  \E t \in TimePoints :
    /\ t > clock
    /\ clock' = t
    /\ UNCHANGED <<cache, events, vcsCount>>

(* ---------------------------------------------------------------------- *)
(* get_current_changes: parsing of `git diff --stat`, character by         *)
(* character (a text is a sequence of one-character strings)               *)
(* ---------------------------------------------------------------------- *)
MaxDiffLines == 3


AsciiDigit == [d \in {"0", "1", "2", "3", "4", "5", "6", "7", "8", "9"} |->
                 CASE d = "0" -> 0 [] d = "1" -> 1 [] d = "2" -> 2 [] d = "3" -> 3
                   [] d = "4" -> 4 [] d = "5" -> 5 [] d = "6" -> 6 [] d = "7" -> 7
                   [] d = "8" -> 8 [] d = "9" -> 9]

HexDigit == [h \in {"0", "1", "2", "3", "4", "5", "6", "7", "8", "9",
                    "A", "B", "C", "D", "E", "F"} |->
               IF h \in DOMAIN AsciiDigit THEN AsciiDigit[h]
               ELSE CASE h = "A" -> 10 [] h = "B" -> 11 [] h = "C" -> 12
                      [] h = "D" -> 13 [] h = "E" -> 14 [] h = "F" -> 15]

RECURSIVE HexVal(_)
HexVal(x) == IF x = <<>> THEN 0
             ELSE HexVal(SubSeq(x, 1, Len(x) - 1)) * 16 + HexDigit[x[Len(x)]]

(* the code point of a "U+XXXX" character *)
CodePoint(ch) == HexVal(Chars(SubSeq(ch, 3, Len(ch))))
IsCodeChar(ch) == Len(ch) > 2 /\ SubSeq(ch, 1, 2) = "U+"

(* the digit zero of every run of ten Unicode decimal digits (category Nd, *)
(* Unicode 14 as in Python 3.11) other than ASCII                          *)
NdZeros ==
  {"U+0660", "U+06F0", "U+07C0", "U+0966", "U+09E6", "U+0A66", "U+0AE6",
   "U+0B66", "U+0BE6", "U+0C66", "U+0CE6", "U+0D66", "U+0DE6", "U+0E50",
   "U+0ED0", "U+0F20", "U+1040", "U+1090", "U+17E0", "U+1810", "U+1946",
   "U+19D0", "U+1A80", "U+1A90", "U+1B50", "U+1BB0", "U+1C40", "U+1C50",
   "U+A620", "U+A8D0", "U+A900", "U+A9D0", "U+A9F0", "U+AA50", "U+ABF0",
   "U+FF10", "U+104A0", "U+10D30", "U+11066", "U+110F0", "U+11136",
   "U+111D0", "U+112F0", "U+11450", "U+114D0", "U+11650", "U+116C0",
   "U+11730", "U+118E0", "U+11950", "U+11C50", "U+11D50", "U+11DA0",
   "U+16A60", "U+16AC0", "U+16B50", "U+1D7CE", "U+1D7D8", "U+1D7E2",
   "U+1D7EC", "U+1D7F6", "U+1E140", "U+1E2F0", "U+1E950", "U+1FBF0"}
NdZeroPoints == {CodePoint(z) : z \in NdZeros}

(* unicodedata.decimal(ch), -1 for a character that is not a digit *)
DecimalValue(ch) ==
  IF ch \in DOMAIN AsciiDigit THEN AsciiDigit[ch]
  ELSE IF IsCodeChar(ch) /\ \E z \in NdZeroPoints : z <= CodePoint(ch) /\ CodePoint(ch) <= z + 9
  THEN LET z == CHOOSE y \in NdZeroPoints : y <= CodePoint(ch) /\ CodePoint(ch) <= y + 9
       IN CodePoint(ch) - z
  ELSE -1

IsDigitChar(ch) == DecimalValue(ch) >= 0

RECURSIVE DigitsVal(_)
DigitsVal(x) == IF x = <<>> THEN 0
                ELSE DigitsVal(SubSeq(x, 1, Len(x) - 1)) * 10 + DecimalValue(x[Len(x)])

NotUnderscore(ch) == ch # "_"

(* digits, with single underscores allowed between two digits *)
DigitString(ds) ==
  /\ ds # <<>>
  /\ IsDigitChar(Head(ds)) /\ IsDigitChar(ds[Len(ds)])
  /\ \A i \in DOMAIN ds :
       IF IsDigitChar(ds[i]) THEN TRUE
       ELSE ds[i] = "_" /\ IsDigitChar(ds[i - 1]) /\ IsDigitChar(ds[i + 1])

(* int(x) for a str: surrounding whitespace stripped, an optional sign,   *)
(* then decimal digits of any script; [ok, n] with ok = FALSE for the      *)
(* ValueError                                                              *)
IntOf(x) ==
  LET y == StripC(x)
      sign == IF y # <<>> /\ Head(y) \in {"+", "-"} THEN Head(y) ELSE ""
      ds == IF sign = "" THEN y ELSE Tail(y)
  IN IF DigitString(ds)
     THEN LET v == DigitsVal(SelectSeq(ds, NotUnderscore))
          IN [ok |-> TRUE, n |-> IF sign = "-" THEN 0 - v ELSE v]
     ELSE [ok |-> FALSE, n |-> 0]

FileChangedC == <<"f", "i", "l", "e", " ", "c", "h", "a", "n", "g", "e", "d">>
FilesChangedC == <<"f", "i", "l", "e", "s", " ", "c", "h", "a", "n", "g", "e", "d">>

(* no symbols: N split evenly, the odd unit going to insertions *)
SplitTotalOddToDeletions(n) == <<n \div 2, n \div 2 + (IF n % 2 = 1 THEN 1 ELSE 0)>>
SplitTotal(n) == <<n \div 2 + (IF n % 2 = 1 THEN 1 ELSE 0), n \div 2>>

(* except Exception: the local `filename` is bound (it is set before     *)
(* int() can raise), so an error entry is stored for it                    *)
OnLineError(st, filename) ==
  [changes |-> (filename :> [additions |-> 0, deletions |-> 0,
                             total |-> 0, error |-> TRUE])
               @@ st.changes,
   fn |-> filename]

(* one iteration of the loop over diff_output.split("\n"): st is          *)
(* [changes, fn] where fn is the local `filename` ("none" = unbound)       *)
DiffLineStep(st, line) ==
  IF StripC(line) = <<>> THEN st
  ELSE IF ContainsC(line, FileChangedC) \/ ContainsC(line, FilesChangedC) THEN st
  ELSE
    LET parts == SplitC(line, "|")
    IN IF Len(parts) # 2 THEN st
       ELSE
         LET filename == StripC(parts[1])
             statsParts == SplitWs(StripC(parts[2]))
             tot == IF statsParts = <<>> THEN [ok |-> TRUE, n |-> 0] ELSE IntOf(statsParts[1])
             symbols == IF Len(statsParts) > 1 THEN statsParts[2] ELSE <<>>
             ins0 == CountC(symbols, "+")
             del0 == CountC(symbols, "-")
             none == ins0 = 0 /\ del0 = 0
             ins == IF none THEN SplitTotal(tot.n)[1] ELSE ins0
             del == IF none THEN SplitTotal(tot.n)[2] ELSE del0
         IN IF tot.ok
            THEN [changes |-> (filename :> [additions |-> ins, deletions |-> del,
                                            total |-> tot.n, error |-> FALSE])
                              @@ st.changes,
                  fn |-> filename]
            ELSE OnLineError(st, filename)

RECURSIVE DiffLoop(_, _)
DiffLoop(st, ls) == IF ls = <<>> THEN st ELSE DiffLoop(DiffLineStep(st, Head(ls)), Tail(ls))

NoChanges == [x \in {} |-> 0]

(* get_current_changes on the output of `git diff --stat` *)
GetCurrentChanges(text) ==
  DiffLoop([changes |-> NoChanges, fn |-> "none"], SplitC(text, "\n")).changes

(* diff --stat output lines; the record carries what the line states      *)
DiffTemplates == {
  [txt |-> <<"f", " ", "|", " ", "1", "0", " ", "+", "+", "+", "+", "+", "-", "-", "-", "-", "-">>,
   kind |-> "stat", fn |-> <<"f">>, n |-> 10, sym |-> TRUE, plus |-> 5, minus |-> 5],
  [txt |-> <<"g", " ", "|", " ", "8">>,
   kind |-> "stat", fn |-> <<"g">>, n |-> 8, sym |-> FALSE, plus |-> 0, minus |-> 0],
  [txt |-> <<"f", " ", "|", " ", "7">>,
   kind |-> "stat", fn |-> <<"f">>, n |-> 7, sym |-> FALSE, plus |-> 0, minus |-> 0],
  [txt |-> <<"h", "|", "3", " ", "+", "+", "-">>,
   kind |-> "stat", fn |-> <<"h">>, n |-> 3, sym |-> TRUE, plus |-> 2, minus |-> 1],
  [txt |-> <<"g", " ", "|", " ", "B", "i", "n", " ", "0", " ", "-", ">", " ", "1", "2">>,
   kind |-> "badcount", fn |-> <<"g">>, n |-> 0, sym |-> FALSE, plus |-> 0, minus |-> 0],
  [txt |-> <<" ", "2", " ", "f", "i", "l", "e", "s", " ", "c", "h", "a", "n", "g", "e", "d">>,
   kind |-> "summary", fn |-> <<>>, n |-> 0, sym |-> FALSE, plus |-> 0, minus |-> 0],
  [txt |-> <<"h", " ", "|", " ", "1", " ", "|", " ", "+">>,
   kind |-> "nopair", fn |-> <<"h">>, n |-> 0, sym |-> FALSE, plus |-> 0, minus |-> 0],
  [txt |-> <<"f", " ", "|", " ", "1", "_", "0">>,
   kind |-> "stat", fn |-> <<"f">>, n |-> 10, sym |-> FALSE, plus |-> 0, minus |-> 0],
  [txt |-> <<"g", "U+00A0", "|", " ", "U+0663", " ", "+", "+", "-", "\r">>,
   kind |-> "stat", fn |-> <<"g">>, n |-> 3, sym |-> TRUE, plus |-> 2, minus |-> 1]}

DiffText(ls) == FlattenSeq([i \in 1..Len(ls) |-> ls[i].txt \o <<"\n">>])

VARIABLES dlines, changes, dpc

diffVars == <<dlines, changes, dpc>>

DiffInit ==
  /\ dlines \in UNION {[1..n -> DiffTemplates] : n \in 1..MaxDiffLines}
  /\ changes = NoChanges
  /\ dpc = "start"

DiffIdle == dlines = <<>> /\ changes = NoChanges /\ dpc = "idle"

(* get_current_changes: git diff --stat succeeds and its output is parsed *)
AnalyzeCurrentChanges ==
  /\ dpc = "start"
  /\ changes' = GetCurrentChanges(DiffText(dlines))
  /\ dpc' = "done"
  /\ UNCHANGED dlines

(* get_current_changes: git diff --stat fails, {} is returned *)
DiffCommandFails ==
  /\ dpc = "start"
  /\ changes' = NoChanges
  /\ dpc' = "failed"
  /\ UNCHANGED dlines

(* ---------------------------------------------------------------------- *)
(* PluginManager (src/src/git_metrics/plugins/manager.py)                  *)
(* A plugin's result and impact are abstract values; which plugins raise   *)
(* in calculate / analyze_impact on the given input is chosen initially.   *)
(* ---------------------------------------------------------------------- *)
NumPlugins == 3

(* the two copies of the package's code in the repository: git_metrics and *)
(* gitsect (src/src/gitsect, whose plugins.interface module is missing, so *)
(* it runs only with git_metrics.plugins.interface put in its place)       *)
Copies == {"git_metrics", "gitsect"}

(* discover_plugins: one plugin per module of git_metrics.metrics, in      *)
(* pkgutil.iter_modules order; every plugin class is concrete, so its      *)
(* constructor never raises                                                *)
PluginNames == <<"change_coupling", "change_entropy", "code_churn",
                 "developer_ownership", "hotspot_analysis", "knowledge_distribution">>
Registered == {PluginNames[i] : i \in 1..NumPlugins}
UnknownId == "no_such_metric"

NullRes == [id |-> "", kind |-> "null"]
Res(id) == [id |-> id, kind |-> "result"]
Imp(id) == [id |-> id, kind |-> "impact"]

(* the plugin_ids argument: None, or a list of ids *)
PluginRequests ==
  {[isNone |-> TRUE, ids |-> <<>>]} \cup
  {[isNone |-> FALSE, ids |-> s] :
     s \in UNION {[1..n -> Registered \cup {UnknownId}] : n \in 0..2}}

RECURSIVE ActivateAux(_, _)
ActivateAux(ids, acc) ==
  IF ids = <<>> THEN acc
  ELSE ActivateAux(Tail(ids),
                   IF Head(ids) \in Registered /\ Head(ids) \notin Range(acc)
                   THEN Append(acc, Head(ids)) ELSE acc)

ActivatedIdsNoneEmpty(req) ==
  IF req.isNone THEN <<>> ELSE ActivateAux(req.ids, <<>>)

(* activate_plugins: the keys of `activated`, in insertion order *)
ActivatedIds(req) ==
  IF req.isNone THEN ActivateAux(SubSeq(PluginNames, 1, NumPlugins), <<>>)
  ELSE ActivateAux(req.ids, <<>>)

RECURSIVE CalcUntilError(_, _, _)
CalcUntilError(act, raises, acc) ==
  IF act = <<>> THEN acc
  ELSE IF Head(act) \in raises THEN (Head(act) :> NullRes) @@ acc
  ELSE CalcUntilError(Tail(act), raises, (Head(act) :> Res(Head(act))) @@ acc)

CalcResultsAllOrNothing(act, raises) == CalcUntilError(act, raises, NoChanges)

(* calculate_metrics: each plugin's calculate inside its own try/except *)
CalcResults(act, raises) ==
  [id \in Range(act) |-> IF id \in raises THEN NullRes ELSE Res(id)]

(* analyze_impact: only ids with a non-None result are asked; a plugin   *)
(* that raises gets no entry                                               *)
ImpactOutcome(act, mr, raises) ==
  LET called == {a \in Range(act) : a \in DOMAIN mr /\ mr[a] # NullRes}
  IN [crash |-> FALSE,
      called |-> called,
      impacts |-> [a \in called \ raises |-> Imp(a)]]

(* gitsect PluginManager.analyze_impact (src/src/gitsect/plugins/manager.py *)
(* 70-91): a dict comprehension over the active plugins in order whose    *)
(* filter reads metric_results[plugin_id] unguarded, so the first active  *)
(* id missing from mr raises KeyError out of the call (the plugins before *)
(* it have been asked); a plugin whose analyze_impact raises gets None    *)
GitsectImpactOutcome(act, mr, raises) ==
  LET miss == {i \in DOMAIN act : act[i] \notin DOMAIN mr}
      upto == IF miss = {} THEN Len(act) ELSE (CHOOSE i \in miss : \A j \in miss : i <= j) - 1
      called == {act[i] : i \in {j \in 1..upto : mr[act[j]] # NullRes}}
  IN [crash |-> miss # {},
      called |-> called,
      impacts |-> IF miss # {} THEN NoChanges
                  ELSE [a \in called |-> IF a \in raises THEN NullRes ELSE Imp(a)]]

VARIABLES pactive, preq, presults, pmr, pimpacts, pcalled, pcrash,
          calcRaises, impRaises, pcopy, pphase

pluginVars == <<pactive, preq, presults, pmr, pimpacts, pcalled, pcrash,
                calcRaises, impRaises, pcopy, pphase>>

PluginInit ==
  /\ pactive = <<>> /\ preq = [isNone |-> TRUE, ids |-> <<>>]
  /\ presults = NoChanges /\ pmr = NoChanges /\ pimpacts = NoChanges
  /\ pcalled = {} /\ pcrash = FALSE
  /\ calcRaises \in SUBSET Registered
  /\ impRaises \in SUBSET Registered
  /\ pcopy = "git_metrics"
  /\ pphase = "init"

PluginIdle ==
  /\ pactive = <<>> /\ preq = [isNone |-> TRUE, ids |-> <<>>]
  /\ presults = NoChanges /\ pmr = NoChanges /\ pimpacts = NoChanges
  /\ pcalled = {} /\ pcrash = FALSE /\ calcRaises = {} /\ impRaises = {}
  /\ pcopy = "git_metrics" /\ pphase = "idle"

ActivatePlugins ==
  \E req \in PluginRequests :
    /\ pphase \in {"init", "impacted"}
    /\ pactive' = ActivatedIds(req)
    /\ preq' = req
    /\ presults' = NoChanges /\ pmr' = NoChanges /\ pimpacts' = NoChanges
    /\ pcalled' = {} /\ pcrash' = FALSE
    /\ pphase' = "activated"
    /\ UNCHANGED <<calcRaises, impRaises, pcopy>>

CalculateMetrics ==
  /\ pphase = "activated"
  /\ presults' = CalcResults(pactive, calcRaises)
  /\ pphase' = "calculated"
  /\ UNCHANGED <<pactive, preq, pmr, pimpacts, pcalled, pcrash, calcRaises, impRaises, pcopy>>

(* analyze_impact of either manager copy (activate_plugins and           *)
(* calculate_metrics behave alike in both); the caller passes the results *)
(* of calculate_metrics, or a map lacking one of the ids                  *)
AnalyzeImpact ==
  \E mr \in {presults} \cup {[x \in DOMAIN presults \ {d} |-> presults[x]] : d \in DOMAIN presults},
    copy \in Copies :
    LET o == IF copy = "git_metrics" THEN ImpactOutcome(pactive, mr, impRaises)
             ELSE GitsectImpactOutcome(pactive, mr, impRaises)
    IN /\ pphase = "calculated"
       /\ pcopy' = copy
       /\ pmr' = mr
       /\ pcrash' = o.crash
       /\ pcalled' = o.called
       /\ pimpacts' = o.impacts
       /\ pphase' = "impacted"
       /\ UNCHANGED <<pactive, preq, presults, calcRaises, impRaises>>

(* ---------------------------------------------------------------------- *)
(* Metric computators over commit records                                  *)
(* (src/src/git_metrics/metrics/*.py).  A commit is                        *)
(* [author, files: <<[filename, status, additions, deletions], ...>>].     *)
(* Ratios are kept exact as numerator/denominator pairs.                   *)
(* ---------------------------------------------------------------------- *)
MaxMCommits == 2

RECURSIVE SumSeq(_)
SumSeq(s) == IF s = <<>> THEN 0 ELSE Head(s) + SumSeq(Tail(s))

(* Python's string order on the file names of the model *)
FileRank == ("f" :> 1) @@ ("g" :> 2) @@ ("h" :> 3) @@ ("x.py" :> 4) @@ ("y.py" :> 5)
            @@ ("z.py" :> 6)
SortPair(a, b) == IF FileRank[a] <= FileRank[b] THEN <<a, b>> ELSE <<b, a>>

FileNamesOf(cs) ==
  UNION {{cs[i].files[k].filename : k \in DOMAIN cs[i].files} : i \in DOMAIN cs}
AuthorsOf(cs) == {cs[i].author : i \in DOMAIN cs}

(* file_changes[f]: one per FileChange naming f *)
ChangesOf(cs, f) ==
  SumSeq([i \in DOMAIN cs |->
            Cardinality({k \in DOMAIN cs[i].files : cs[i].files[k].filename = f})])

(* combinations(files, 2) of one commit, the pairs with file1 != file2 *)
CommitPairs(c) ==
  {<<j, k>> \in (DOMAIN c.files) \X (DOMAIN c.files) :
     j < k /\ c.files[j].filename # c.files[k].filename}

PairKeyOf(c, jk) == SortPair(c.files[jk[1]].filename, c.files[jk[2]].filename)
PairKeyUnsorted(c, jk) == <<c.files[jk[1]].filename, c.files[jk[2]].filename>>

CouplingKeys(cs) ==
  UNION {{PairKeyOf(cs[i], jk) : jk \in CommitPairs(cs[i])} : i \in DOMAIN cs}

PairCount(cs, p) ==
  SumSeq([i \in DOMAIN cs |->
            Cardinality({jk \in CommitPairs(cs[i]) : PairKeyOf(cs[i], jk) = p})])

(* ChangeCouplingMetric.calculate: result["coupling"] *)
ChangeCoupling(cs) ==
  [p \in CouplingKeys(cs) |->
     LET c == PairCount(cs, p)
         f1 == ChangesOf(cs, p[1])
         f2 == ChangesOf(cs, p[2])
         u == f1 + f2 - c
     IN [count |-> c, jn |-> IF u > 0 THEN c ELSE 0, jd |-> IF u > 0 THEN u ELSE 1,
         file1_changes |-> f1, file2_changes |-> f2]]

(* CodeChurnMetric.calculate *)
CodeChurn(cs) ==
  [f \in FileNamesOf(cs) |->
     SumSeq([i \in DOMAIN cs |->
       SumSeq([k \in DOMAIN cs[i].files |->
         IF cs[i].files[k].filename = f
         THEN cs[i].files[k].additions + cs[i].files[k].deletions ELSE 0])])]

(* author_changes[filename][author] *)
AuthorFileChanges(cs, f, a) ==
  SumSeq([i \in DOMAIN cs |->
     IF cs[i].author = a
     THEN Cardinality({k \in DOMAIN cs[i].files : cs[i].files[k].filename = f})
     ELSE 0])

FileAuthors(cs, f) ==
  {cs[i].author : i \in {j \in DOMAIN cs :
                           \E k \in DOMAIN cs[j].files : cs[j].files[k].filename = f}}

(* max(author_counts.items(), key=count): any author with the top count; *)
(* which one is the set's iteration order, i.e. string hashing            *)
DominantChoices(cs) ==
  {dom \in [FileNamesOf(cs) -> AuthorsOf(cs)] :
     \A f \in FileNamesOf(cs) :
       /\ dom[f] \in FileAuthors(cs, f)
       /\ \A a \in FileAuthors(cs, f) :
            AuthorFileChanges(cs, f, a) <= AuthorFileChanges(cs, f, dom[f])}

DeveloperOwnershipCountsChanges(cs, dom) ==
  [f \in FileNamesOf(cs) |->
     [dominant_author |-> dom[f],
      rn |-> AuthorFileChanges(cs, f, dom[f]),
      rd |-> ChangesOf(cs, f),
      contributor_count |-> ChangesOf(cs, f)]]

(* DeveloperOwnershipMetric.calculate *)
DeveloperOwnership(cs, dom) ==
  [f \in FileNamesOf(cs) |->
     [dominant_author |-> dom[f],
      rn |-> AuthorFileChanges(cs, f, dom[f]),
      rd |-> ChangesOf(cs, f),
      contributor_count |-> Cardinality(FileAuthors(cs, f))]]

(* DeveloperOwnershipMetric._categorize_ownership(ratio = rn / rd) *)
CategorizeOwnership(rn, rd, contributors) ==
  IF 5 * rn > 4 * rd /\ contributors = 1 THEN "exclusive"
  ELSE IF 5 * rn > 4 * rd THEN "strong"
  ELSE IF 2 * rn > rd THEN "moderate"
  ELSE IF 10 * rn > 3 * rd THEN "shared"
  ELSE "dispersed"

(* DeveloperOwnershipMetric.analyze_impact: ownership_category per        *)
(* current change ("new_file" when the file has no history)               *)
OwnershipImpact(cc, own) ==
  [f \in cc |->
     IF f \in DOMAIN own
     THEN CategorizeOwnership(own[f].rn, own[f].rd, own[f].contributor_count)
     ELSE "new_file"]

RECURSIVE SortDesc(_)
SortDesc(S) ==
  IF S = {} THEN <<>>
  ELSE LET m == CHOOSE x \in S : \A y \in S : y[2] <= x[2]
       IN <<m>> \o SortDesc(S \ {m})

(* ---------------------------------------------------------------------- *)
(* IEEE-754 binary64 arithmetic on the values 0 <= v < 2 that the bus      *)
(* factor loop handles.  A value is the fixed-point number                 *)
(* <<L0, L1, L2, L3, L4>> = L0 + L1 * 2^-16 + ... + L4 * 2^-64 with        *)
(* 0 <= Li < 2^16; its bit j (weight 2^-j, 0 <= j <= 64) is Bit(v, j).     *)
(* Every double the loop meets for at most 2^10 files is exact in this     *)
(* form: its leading bit has weight >= 2^-10 and it has 53 significant     *)
(* bits.                                                                   *)
(* ---------------------------------------------------------------------- *)
Limb == 65536
LastBit == 64

Bit(v, j) ==
  IF j = 0 THEN v[1]
  ELSE (v[(j - 1) \div 16 + 2] \div 2 ^ (15 - ((j - 1) % 16))) % 2

(* x + y, carrying between limbs *)
AddLimbs(x, y) ==
  LET s5 == x[5] + y[5]
      s4 == x[4] + y[4] + s5 \div Limb
      s3 == x[3] + y[3] + s4 \div Limb
      s2 == x[2] + y[2] + s3 \div Limb
      s1 == x[1] + y[1] + s2 \div Limb
  IN <<s1, s2 % Limb, s3 % Limb, s4 % Limb, s5 % Limb>>

(* v with every bit of weight below 2^-j cleared, and the value 2^-j *)
TruncAt(v, j) ==
  [i \in 1..5 |->
     IF i = 1 THEN v[1]
     ELSE LET lo == 16 * (i - 2) + 1
          IN IF j >= lo + 15 THEN v[i]
             ELSE IF j < lo THEN 0
             ELSE v[i] - (v[i] % 2 ^ (15 - (j - lo)))]
UnitAt(j) ==
  [i \in 1..5 |->
     IF i = 1 THEN (IF j = 0 THEN 1 ELSE 0)
     ELSE IF j > 0 /\ (j - 1) \div 16 + 2 = i THEN 2 ^ (15 - ((j - 1) % 16)) ELSE 0]

(* round v (plus a sticky flag for nonzero bits beyond 2^-64) to 53        *)
(* significant bits, round half to even                                    *)
RoundDouble(v, sticky) ==
  LET ones == {j \in 0..LastBit : Bit(v, j) = 1}
  IN IF ones = {} THEN v
     ELSE
       LET lead == CHOOSE j \in ones : \A i \in ones : j <= i
           last == lead + 52
       IN IF last >= LastBit THEN v
          ELSE
            LET kept == TruncAt(v, last)
                guard == Bit(v, last + 1) = 1
                rest == sticky \/ \E j \in (last + 2)..LastBit : Bit(v, j) = 1
            IN IF guard /\ (rest \/ Bit(v, last) = 1)
               THEN AddLimbs(kept, UnitAt(last))
               ELSE kept

(* c / n as a Python float (true division of ints, 0 <= c <= n, n > 0):  *)
(* long division one 16-bit limb at a time                                 *)
ShareDouble(c, n) ==
  LET r0 == c % n
      r1 == (r0 * Limb) % n
      r2 == (r1 * Limb) % n
      r3 == (r2 * Limb) % n
      r4 == (r3 * Limb) % n
  IN RoundDouble(<<c \div n, (r0 * Limb) \div n, (r1 * Limb) \div n,
                   (r2 * Limb) \div n, (r3 * Limb) \div n>>, r4 # 0)

(* x + y on floats *)
FAddDouble(x, y) == RoundDouble(AddLimbs(x, y), FALSE)

(* the float sum 0 + c1/n + c2/n + ... accumulated left to right *)
RECURSIVE FloatSumAcc(_, _, _)
FloatSumAcc(cs, n, acc) ==
  IF cs = <<>> THEN acc
  ELSE FloatSumAcc(Tail(cs), n, FAddDouble(acc, ShareDouble(Head(cs), n)))
FloatSum(cs, n) == FloatSumAcc(cs, n, <<0, 0, 0, 0, 0>>)

(* v >= 0.5 *)
AtLeastHalf(v) == Bit(v, 0) = 1 \/ Bit(v, 1) = 1

(* cumulative >= 0.5 after the shares cs (owned counts over n files).      *)
(* Away from the exact half (2 * sum # n) the exact sum is at least 1/(2n) *)
(* from 0.5 and the float sum is within a few ulps of it, so the two agree; *)
(* at the exact half the float sum decides.                                *)
ReachesHalf(cs, n) ==
  IF 2 * SumSeq(cs) # n THEN 2 * SumSeq(cs) > n
  ELSE AtLeastHalf(FloatSum(cs, n))

(* the loop of _calculate_bus_factor over contributions owned/nfiles,     *)
(* largest first, stopping once the cumulative share reaches 0.5; done    *)
(* holds the owned counts added so far                                     *)
RECURSIVE BusLoopBreakFirst(_, _, _, _)
BusLoopBreakFirst(s, done, bf, nfiles) ==
  IF s = <<>> THEN bf
  ELSE LET done2 == Append(done, Head(s)[2])
       IN IF nfiles > 0 /\ ReachesHalf(done2, nfiles) THEN bf
          ELSE BusLoopBreakFirst(Tail(s), done2, bf + 1, nfiles)

RECURSIVE BusLoop(_, _, _, _)
BusLoop(s, done, bf, nfiles) ==
  IF s = <<>> THEN bf
  ELSE LET done2 == Append(done, Head(s)[2])
       IN IF nfiles > 0 /\ ReachesHalf(done2, nfiles) THEN bf + 1
          ELSE BusLoop(Tail(s), done2, bf + 1, nfiles)

BusFactorBreakFirst(cs, dom) ==
  BusLoopBreakFirst(
    SortDesc({<<a, Cardinality({f \in FileNamesOf(cs) : dom[f] = a})>> : a \in AuthorsOf(cs)}),
    <<>>, 0, Cardinality(FileNamesOf(cs)))

(* KnowledgeDistributionMetric: bus_factor = _calculate_bus_factor(team)  *)
(* where an author's contribution is owned_files / len(all_files)         *)
BusFactor(cs, dom) ==
  BusLoop(
    SortDesc({<<a, Cardinality({f \in FileNamesOf(cs) : dom[f] = a})>> : a \in AuthorsOf(cs)}),
    <<>>, 0, Cardinality(FileNamesOf(cs)))

(* _calculate_knowledge_redundancy as numerator / denominator *)
KnowledgeRedundancy(cs) ==
  IF FileNamesOf(cs) = {} THEN <<0, 1>>
  ELSE <<Cardinality(UNION {{<<f, a>> : a \in FileAuthors(cs, f)} : f \in FileNamesOf(cs)}),
         Cardinality(FileNamesOf(cs))>>

TeamRiskLevelRedundancyFirst(bus, rn, rd) ==
  IF 2 * rn < 3 * rd THEN "medium"
  ELSE IF bus <= 1 THEN "critical"
  ELSE IF bus <= 2 THEN "high"
  ELSE IF bus <= 3 THEN "elevated"
  ELSE "low"

(* _calculate_team_risk_level(bus_factor, rn / rd) *)
TeamRiskLevel(bus, rn, rd) ==
  IF bus <= 1 THEN "critical"
  ELSE IF bus <= 2 THEN "high"
  ELSE IF 2 * rn < 3 * rd THEN "medium"
  ELSE IF bus <= 3 THEN "elevated"
  ELSE "low"

(* HotspotAnalysisMetric.calculate: changes and churn per file; the      *)
(* score changes * (churn / changes) is a float and is not modelled        *)
Hotspot(cs) ==
  [f \in FileNamesOf(cs) |-> [changes |-> ChangesOf(cs, f), churn |-> CodeChurn(cs)[f]]]

(* ChangeEntropyMetric.calculate: contributors of each file with total > 0 *)
EntropyContributors(cs) ==
  [f \in {g \in FileNamesOf(cs) : ChangesOf(cs, g) > 0} |-> Cardinality(FileAuthors(cs, f))]

ChurnRiskAtLeast(pn, pd, cur, hist) ==
  IF 10 * pn >= 9 * pd THEN "critical"
  ELSE IF 5 * pn >= 4 * pd THEN "high"
  ELSE IF 5 * pn >= 3 * pd THEN "medium"
  ELSE IF 10 * cur >= 3 * hist THEN "elevated"
  ELSE "low"

(* CodeChurnMetric._calculate_risk_level(pn / pd, current, historical) *)
ChurnRisk(pn, pd, cur, hist) ==
  IF 10 * pn > 9 * pd THEN "critical"
  ELSE IF 5 * pn > 4 * pd THEN "high"
  ELSE IF 5 * pn > 3 * pd THEN "medium"
  ELSE IF 10 * cur > 3 * hist THEN "elevated"
  ELSE "low"

NewChurn == [new |-> TRUE, err |-> "none", pn |-> 0, pd |-> 1, hist |-> 0, cur |-> 0,
             risk |-> "none"]

(* the metrics of one file with history: churn_percentile = pn / pd *)
ChurnMetrics(f, tot, churn) ==
  LET N == Cardinality(DOMAIN churn)
      k == Cardinality({g \in DOMAIN churn : churn[g] <= churn[f]})
  IN IF N = 0 THEN [NewChurn EXCEPT !.new = FALSE, !.err = "ZeroDivisionError"]
     ELSE [new |-> FALSE, err |-> "none", pn |-> k, pd |-> N, hist |-> churn[f],
           cur |-> tot[f], risk |-> ChurnRisk(k, N, tot[f], churn[f])]

ChurnImpactUnguarded(cc, tot, churn) ==
  [f \in cc |-> IF f \in DOMAIN churn THEN ChurnMetrics(f, tot, churn)
                ELSE [NewChurn EXCEPT !.new = FALSE, !.err = "KeyError"]]

(* CodeChurnMetric.analyze_impact *)
ChurnImpact(cc, tot, churn) ==
  [f \in cc |-> IF f \notin DOMAIN churn THEN NewChurn ELSE ChurnMetrics(f, tot, churn)]

(* HotspotAnalysisMetric.analyze_impact: new_file, or the score_percentile *)
(* division by len(all_scores); relative_change_size is guarded by          *)
(* avg_churn > 0                                                            *)
HotspotImpact(cc, hs) ==
  [f \in cc |-> IF f \notin DOMAIN hs THEN [new |-> TRUE, err |-> "none"]
                ELSE IF Cardinality(DOMAIN hs) = 0 THEN [new |-> FALSE, err |-> "ZeroDivisionError"]
                ELSE [new |-> FALSE, err |-> "none"]]

(* ChangeEntropyMetric.analyze_impact *)
EntropyImpact(cc, ent) ==
  [f \in cc |-> IF f \notin DOMAIN ent THEN [new |-> TRUE, contributors |-> 0]
                ELSE [new |-> FALSE, contributors |-> ent[f]]]

(* KnowledgeDistributionMetric.analyze_impact: team risk_level and        *)
(* new_file per current change                                              *)
KnowledgeImpact(cc, cs, dom) ==
  LET red == KnowledgeRedundancy(cs)
  IN [team |-> TeamRiskLevel(BusFactor(cs, dom), red[1], red[2]),
      files |-> [f \in cc |-> IF f \in FileNamesOf(cs) THEN "ok" ELSE "new_file"]]

(* ChangeCouplingMetric._calculate_risk_level(mn / md, strong) *)
CouplingRisk(mn, md, strong) ==
  IF 5 * mn > 4 * md /\ strong > 0 THEN "critical"
  ELSE IF 10 * mn > 7 * md /\ strong > 0 THEN "high"
  ELSE IF 2 * mn > md \/ strong > 1 THEN "medium"
  ELSE IF 10 * mn > 3 * md THEN "elevated"
  ELSE "low"

(* lexicographic order on <<commit, position, position>> *)
LexLess(a, b) ==
  \/ a[1] < b[1]
  \/ a[1] = b[1] /\ a[2] < b[2]
  \/ a[1] = b[1] /\ a[2] = b[2] /\ a[3] < b[3]

(* the place of pair p in the file_coupling dict: its first increment,   *)
(* commits in order and combinations(files, 2) within a commit            *)
PairFirst(cs) ==
  [p \in CouplingKeys(cs) |->
     LET occ == UNION {{<<i, jk[1], jk[2]>> :
                           jk \in {y \in CommitPairs(cs[i]) : PairKeyOf(cs[i], y) = p}} :
                         i \in DOMAIN cs}
     IN CHOOSE o \in occ : \A o2 \in occ : o = o2 \/ LexLess(o, o2)]

(* the coupling dict after calculate's stable sort by jaccard descending, *)
(* iterated by analyze_impact, then list.sort(key=strength, reverse=True)  *)
(* (stable): strength descending, ties in file_coupling insertion order;   *)
(* first gives each pair's place there, f the file the entries are for     *)
RECURSIVE SortByStrength(_, _, _)
SortByStrength(S, f, first) ==
  IF S = {} THEN <<>>
  ELSE LET before(x, y) == \/ y.sn * x.sd < x.sn * y.sd
                           \/ /\ y.sn * x.sd = x.sn * y.sd
                              /\ LexLess(first[SortPair(f, x.file)], first[SortPair(f, y.file)])
           m == CHOOSE x \in S : \A y \in S : x = y \/ before(x, y)
       IN <<m>> \o SortByStrength(S \ {m}, f, first)

(* the coupled_files entry of pair p for filename f *)
CoupledEntry(f, p, coup) ==
  [file |-> IF p[2] = f THEN p[1] ELSE p[2],
   sn |-> coup[p].jn, sd |-> coup[p].jd, count |-> coup[p].count]

(* ChangeCouplingMetric.analyze_impact; fch is result["file_changes"] *)
CouplingImpact(cc, coup, fch, first) ==
  [f \in cc |->
     IF f \notin fch
     THEN [new |-> TRUE, modified |-> <<>>, unmodified |-> <<>>,
           mn |-> 0, md |-> 1, strong |-> 0, risk |-> "none"]
     ELSE LET ps == {p \in DOMAIN coup : f = p[1] \/ f = p[2]}
              mods == {CoupledEntry(f, p, coup) : p \in {q \in ps : CoupledEntry(f, q, coup).file \in cc}}
              unmods == {CoupledEntry(f, p, coup) : p \in {q \in ps : CoupledEntry(f, q, coup).file \notin cc}}
              top == CHOOSE p \in ps : \A q \in ps : coup[q].jn * coup[p].jd <= coup[p].jn * coup[q].jd
              mx == IF ps = {} THEN <<0, 1>> ELSE <<coup[top].jn, coup[top].jd>>
              strong == Cardinality({e \in unmods : 2 * e.sn > e.sd})
          IN [new |-> FALSE, modified |-> SortByStrength(mods, f, first),
              unmodified |-> SortByStrength(unmods, f, first),
              mn |-> mx[1], md |-> mx[2], strong |-> strong,
              risk |-> CouplingRisk(mx[1], mx[2], strong)]]

(* gitsect ChangeCouplingMetric.analyze_impact                           *)
(* (src/src/gitsect/metrics/change_coupling.py 87-163): the metrics are  *)
(* computed for every current change (new_file is added to them), and    *)
(* strong_unmodified counts the pairs with jaccard > 0.5 of which f is    *)
(* not the first (sorted) name, whether or not the other file is modified *)
GitsectCouplingImpact(cc, coup, fch, first) ==
  [f \in cc |->
     LET ps == {p \in DOMAIN coup : f = p[1] \/ f = p[2]}
         mods == {CoupledEntry(f, p, coup) : p \in {q \in ps : CoupledEntry(f, q, coup).file \in cc}}
         unmods == {CoupledEntry(f, p, coup) : p \in {q \in ps : CoupledEntry(f, q, coup).file \notin cc}}
         top == CHOOSE p \in ps : \A q \in ps : coup[q].jn * coup[p].jd <= coup[p].jn * coup[q].jd
         mx == IF ps = {} THEN <<0, 1>> ELSE <<coup[top].jn, coup[top].jd>>
         strong == Cardinality({p \in ps : 2 * coup[p].jn > coup[p].jd /\ f # p[1]})
     IN [new |-> f \notin fch, modified |-> SortByStrength(mods, f, first),
         unmodified |-> SortByStrength(unmods, f, first),
         mn |-> mx[1], md |-> mx[2], strong |-> strong,
         risk |-> CouplingRisk(mx[1], mx[2], strong)]]

(* commit records handed to the metrics' calculate: authors u1, u2;      *)
(* FileChanges with additions/deletions as _parse_commits_chunk assigns    *)
(* them by status; file names and statuses are strings                    *)
MaxCommitFiles == 2
MAuthors == {"u1", "u2"}
FC(f, st) == [filename |-> f, status |-> st,
              additions |-> StatusCounts(Chars(st))[1],
              deletions |-> StatusCounts(Chars(st))[2]]
FileChangeOpts == {FC("x.py", "A"), FC("x.py", "M"), FC("y.py", "M")}
MCommits == [author : MAuthors,
             files : UNION {[1..n -> FileChangeOpts] : n \in 0..MaxCommitFiles}]
MCommitSets == UNION {[1..n -> MCommits] : n \in 0..MaxMCommits}

(* the 3-commit history as commit records given directly to calculate    *)
(* (as in the spec's scenario, not as collect_history returns it), newest *)
(* first: C modifies y.py, B modifies x.py and y.py, A adds x.py; au      *)
(* gives the authors of C, B, A                                            *)
ScenarioAuthors == {au \in [1..3 -> MAuthors] : au[1] # au[2] \/ au[2] # au[3]}
ScenarioRecords(au) ==
  <<[author |-> au[1], files |-> <<FC("y.py", "M")>>],
    [author |-> au[2], files |-> <<FC("x.py", "M"), FC("y.py", "M")>>],
    [author |-> au[3], files |-> <<FC("x.py", "A")>>]>>
ScenarioSets == {ScenarioRecords(au) : au \in ScenarioAuthors}
(* a commit naming one file twice *)
DupSets == {<<[author |-> "u1",
               files |-> <<FC("x.py", "M"), FC("x.py", "M"), FC("y.py", "M")>>]>>}

(* the same history as git log prints it for collect_history *)
ScenarioDescs(b) ==
  <<[body |-> b[1], ns |-> <<<<"M", "y.py">>>>, wf |-> TRUE, subj |-> "s"],
    [body |-> b[2], ns |-> <<<<"M", "x.py">>, <<"M", "y.py">>>>, wf |-> TRUE, subj |-> "s"],
    [body |-> b[3], ns |-> <<<<"A", "x.py">>>>, wf |-> TRUE, subj |-> "s"]>>
ScenarioLog(au, b) ==
  JoinC(FlattenSeq([i \in 1..3 |->
                      CommitLinesBy(ScenarioDescs(b)[i], i, Chars(au[i])) \o <<<<>>>>]),
        "\n")
(* the parsed records with their strings spelled out *)
ToMetricCommits(cs) ==
  [i \in DOMAIN cs |->
     [author |-> Str(cs[i].author),
      files |-> [k \in DOMAIN cs[i].files |->
                   [filename |-> Str(cs[i].files[k].filename),
                    status |-> Str(cs[i].files[k].status),
                    additions |-> cs[i].files[k].additions,
                    deletions |-> cs[i].files[k].deletions]]]]

CurrentChangedFiles == {"x.py", "y.py", "z.py"}
(* the files of the current-changes map, and their "total" *)
MCcOptions == {{}, {"y.py", "z.py"}, CurrentChangedFiles}
MTotals == {0, 1}

VARIABLES mscen, mcommits, mcc, mtot, mres, mimpact, mall, mres2, mphase

metricVars == <<mscen, mcommits, mcc, mtot, mres, mimpact, mall, mres2, mphase>>

NoMetrics == [coupling |-> <<>>, churn |-> <<>>, own |-> <<>>, bus |-> 0,
              hot |-> <<>>, ent |-> <<>>, dom |-> <<>>]

MetricIdle ==
  /\ mscen = "none" /\ mcommits = <<>> /\ mcc = {} /\ mtot = <<>> /\ mres = NoMetrics
  /\ mimpact = <<>> /\ mall = <<>> /\ mres2 = NoMetrics /\ mphase = "idle"

MetricInit ==
  /\ mscen = "none"
  /\ mcommits \in MCommitSets \cup ScenarioSets \cup DupSets
  /\ mcc \in MCcOptions
  /\ mtot \in [mcc -> MTotals]
  /\ mres = NoMetrics
  /\ mimpact = <<>>
  /\ mall = <<>>
  /\ mres2 = NoMetrics
  /\ mphase = "collected"

ScenarioInit ==
  /\ mscen \in [au : ScenarioAuthors, b : [1..3 -> Bodies]]
  /\ mcommits = <<>>
  /\ mcc = CurrentChangedFiles
  /\ mtot = [f \in CurrentChangedFiles |-> 1]
  /\ mres = NoMetrics
  /\ mimpact = <<>>
  /\ mall = <<>>
  /\ mres2 = NoMetrics
  /\ mphase = "log"

(* collect_history on the scenario's git log output, on ncpu slices *)
CollectScenario ==
  /\ mphase = "log"
  /\ \E n \in 1..MaxCpu :
       mcommits' = ToMetricCommits(ParseCommitData(ScenarioLog(mscen.au, mscen.b), n))
  /\ mphase' = "collected"
  /\ UNCHANGED <<mscen, mcc, mtot, mres, mimpact, mall, mres2>>

(* the calculate results of the six metrics on commits cs, dom giving   *)
(* the dominant author the author set's iteration order picks per file   *)
MetricResults(cs, dom) ==
  [coupling |-> ChangeCoupling(cs),
   churn |-> CodeChurn(cs),
   own |-> DeveloperOwnership(cs, dom),
   bus |-> BusFactor(cs, dom),
   hot |-> Hotspot(cs),
   ent |-> EntropyContributors(cs),
   dom |-> dom]

(* calculate of the six metrics on the same commits *)
ComputeMetrics ==
  /\ mphase = "collected"
  /\ \E dom \in DominantChoices(mcommits) : mres' = MetricResults(mcommits, dom)
  /\ mphase' = "computed"
  /\ UNCHANGED <<mscen, mcommits, mcc, mtot, mimpact, mall, mres2>>

(* analyze_impact of the six metrics on the current changes *)
AnalyzeMetricImpacts ==
  /\ mphase = "computed"
  /\ mimpact' = OwnershipImpact(mcc, mres.own)
  /\ mall' = [churn |-> ChurnImpact(mcc, mtot, mres.churn),
               hot |-> HotspotImpact(mcc, mres.hot),
               ent |-> EntropyImpact(mcc, mres.ent),
               coup |-> CouplingImpact(mcc, mres.coupling, FileNamesOf(mcommits), PairFirst(mcommits)),
               know |-> KnowledgeImpact(mcc, mcommits, mres.dom)]
  /\ mphase' = "done"
  /\ UNCHANGED <<mscen, mcommits, mcc, mtot, mres, mres2>>

Reverse(s) == [i \in 1..Len(s) |-> s[Len(s) + 1 - i]]

(* calculate again on the same commits concatenated in the other order: *)
(* the sets file_authors[f] are filled in another order, and for author *)
(* names whose hashes share a slot their iteration order follows it      *)
RecomputeReordered ==
  /\ mphase = "done"
  /\ \E dom \in DominantChoices(Reverse(mcommits)) :
       mres2' = MetricResults(Reverse(mcommits), dom)
  /\ mphase' = "reordered"
  /\ UNCHANGED <<mscen, mcommits, mcc, mtot, mres, mimpact, mall>>

(* ---------------------------------------------------------------------- *)
(* CodeChurnMetric on a history of single-file commits over up to six     *)
(* files, then analyze_impact on a current-changes map of one file and a  *)
(* file without history.                                                  *)
(* ---------------------------------------------------------------------- *)
MaxChurnFiles == 6
ChFile(i) == <<"a.py", "b.py", "c.py", "d.py", "e.py", "g.py", "h.py", "i.py">>[i]
NewFile == "new.py"

VARIABLES chcommits, chres, chcc, chtot, chimp, chphase

churnVars == <<chcommits, chres, chcc, chtot, chimp, chphase>>

ChurnIdle ==
  /\ chcommits = <<>> /\ chres = <<>> /\ chcc = {} /\ chtot = <<>> /\ chimp = <<>>
  /\ chphase = "idle"

ChurnInit ==
  /\ chcommits = <<>>
  /\ chres = <<>>
  /\ chcc = {}
  /\ chtot = <<>>
  /\ chimp = <<>>
  /\ chphase = "build"

(* commit i adds or modifies file i *)
AddChurnCommit ==
  /\ chphase = "build"
  /\ Len(chcommits) < MaxChurnFiles
  /\ \E st \in {"A", "M"} :
       chcommits' = Append(chcommits, [author |-> "u1",
                                       files |-> <<FC(ChFile(Len(chcommits) + 1), st)>>])
  /\ UNCHANGED <<chres, chcc, chtot, chimp, chphase>>

(* CodeChurnMetric.calculate *)
ComputeChurn ==
  /\ chphase = "build"
  /\ chres' = CodeChurn(chcommits)
  /\ chphase' = "computed"
  /\ UNCHANGED <<chcommits, chcc, chtot, chimp>>

(* CodeChurnMetric.analyze_impact on {ChFile(j): t, new.py: 1} *)
AnalyzeChurn ==
  /\ chphase = "computed"
  /\ \E j \in 1..MaxChurnFiles, t \in MTotals :
       LET cc == {ChFile(j), NewFile}
           tot == [f \in cc |-> IF f = NewFile THEN 1 ELSE t]
       IN /\ chcc' = cc
          /\ chtot' = tot
          /\ chimp' = ChurnImpact(cc, tot, chres)
  /\ chphase' = "done"
  /\ UNCHANGED <<chcommits, chres>>

(* ---------------------------------------------------------------------- *)
(* KnowledgeDistributionMetric.calculate run after run: the team-level    *)
(* outcome of the previous run is kept to compare runs on different       *)
(* commit sets.                                                            *)
(* ---------------------------------------------------------------------- *)
MaxKCommits == 3
MaxKCommitFiles == 2
KAuthorOf(i) == <<"u1", "u2", "u3">>[((i - 1) % 3) + 1]
KFiles == {"x.py", "y.py", "z.py"}
KFileSets == {S \in SUBSET KFiles : Cardinality(S) <= MaxKCommitFiles}
SetToFiles(S) ==
  LET ord == SortedPts({FileRank[f] : f \in S})
  IN [k \in 1..Len(ord) |-> FC(CHOOSE f \in S : FileRank[f] = ord[k], "M")]
(* team_metrics of calculate, with analyze_impact's team risk_level *)
KnowledgeResult(cs, dom) ==
  LET red == KnowledgeRedundancy(cs)
      bf == BusFactor(cs, dom)
  IN [bus |-> bf, rn |-> red[1], rd |-> red[2],
      nauth |-> Cardinality(AuthorsOf(cs)), nfiles |-> Cardinality(FileNamesOf(cs)),
      risk |-> TeamRiskLevel(bf, red[1], red[2])]

NoKnowledge == [bus |-> 0, rn |-> 0, rd |-> 1, nauth |-> 0, nfiles |-> 0, risk |-> "none"]

VARIABLES kcommits, kprev, kres, kdom, kphase

knowVars == <<kcommits, kprev, kres, kdom, kphase>>

KnowledgeIdle ==
  /\ kcommits = <<>> /\ kprev = NoKnowledge /\ kres = NoKnowledge
  /\ kdom = <<>> /\ kphase = "idle"

KnowledgeInit ==
  /\ kcommits = <<>>
  /\ kprev = NoKnowledge
  /\ kres = NoKnowledge
  /\ kdom = <<>>
  /\ kphase = "build"

(* the history handed to a run, one commit after another: commit i is by *)
(* u1, u2, u3, u1, ... and modifies a set of at most MaxKCommitFiles files *)
AddKCommit ==
  /\ kphase = "build"
  /\ Len(kcommits) < MaxKCommits
  /\ \E S \in KFileSets :
       kcommits' = Append(kcommits, [author |-> KAuthorOf(Len(kcommits) + 1),
                                     files |-> SetToFiles(S)])
  /\ kphase' = IF Len(kcommits) + 1 = MaxKCommits THEN "collected" ELSE "build"
  /\ UNCHANGED <<kprev, kres, kdom>>

(* KnowledgeDistributionMetric.calculate and its team risk level, on the *)
(* history built so far                                                   *)
ComputeKnowledge ==
  /\ kphase \in {"build", "collected"}
  /\ \E dom \in DominantChoices(kcommits) :
       /\ kres' = KnowledgeResult(kcommits, dom)
       /\ kdom' = dom
  /\ kphase' = "computed"
  /\ UNCHANGED <<kcommits, kprev>>

(* a later run on another commit set *)
NextRun ==
  /\ kphase = "computed"
  /\ kprev' = kres
  /\ kcommits' = <<>>
  /\ kres' = NoKnowledge
  /\ kdom' = <<>>
  /\ kphase' = "build"

(* ---------------------------------------------------------------------- *)
(* GitAnalyzer construction (src/src/git_metrics/core/analyzer.py)         *)
(* ---------------------------------------------------------------------- *)
(* the compiled git_metrics.git_metrics extension is not part of the      *)
(* package, so the import in _is_rust_available fails                     *)
RustAvailable == FALSE

(* GitPythonCollector.__init__(self, repo_path, max_commits, since_days) *)
CollectorParams == {"repo_path", "max_commits", "since_days"}

(* keyword arguments _create_collector passes to the collector *)
CreateKwargs == {"repo_path", "max_commits", "since_days", "file_patterns"}

(* a Python call with keyword arguments: TypeError on an unexpected one *)
KwargsCall(kwargs, params) == IF kwargs \subseteq params THEN "ok" ELSE "TypeError"

AnalyzerConfigs == [repo : {".", "/r", "sub"}, mc : {"None", "1"}, sd : {"None", "7"},
                    usePy : BOOLEAN, fp : {"None", "[]", "['*.py']"}]

(* GitAnalyzer._create_collector *)
CreateCollector(cfg) ==
  IF ~cfg.usePy /\ RustAvailable THEN "rust"
  ELSE KwargsCall(CreateKwargs, CollectorParams)

VARIABLES acfg, acoll, aphase

anaVars == <<acfg, acoll, aphase>>

AnalyzerIdle == acfg = "none" /\ acoll = "none" /\ aphase = "idle"

AnalyzerInit == acfg \in AnalyzerConfigs /\ acoll = "none" /\ aphase = "init"

(* GitAnalyzer.__init__ *)
ConstructAnalyzer ==
  /\ aphase = "init"
  /\ acoll' = CreateCollector(acfg)
  /\ aphase' = "constructed"
  /\ UNCHANGED acfg

(* ---------------------------------------------------------------------- *)
(* ChangeCouplingMetric on a history of commits over x.py, y.py and z.py, *)
(* then analyze_impact on a current-changes map of any of these files.   *)
(* ---------------------------------------------------------------------- *)
MaxCoupCommits == 4
CpFileSets == {S \in SUBSET KFiles : S # {}}

VARIABLES cpcommits, cpres, cpfch, cpcc, cpimp, cpcopy, cpphase

coupVars == <<cpcommits, cpres, cpfch, cpcc, cpimp, cpcopy, cpphase>>

CoupIdle ==
  /\ cpcommits = <<>> /\ cpres = <<>> /\ cpfch = {} /\ cpcc = {} /\ cpimp = <<>>
  /\ cpcopy = "git_metrics" /\ cpphase = "idle"

CoupInit ==
  /\ cpcommits = <<>>
  /\ cpres = <<>>
  /\ cpfch = {}
  /\ cpcc = {}
  /\ cpimp = <<>>
  /\ cpcopy = "git_metrics"
  /\ cpphase = "build"

(* one more commit, modifying a nonempty set of the files *)
AddCoupCommit ==
  /\ cpphase = "build"
  /\ Len(cpcommits) < MaxCoupCommits
  /\ \E S \in CpFileSets :
       cpcommits' = Append(cpcommits, [author |-> "u1", files |-> SetToFiles(S)])
  /\ UNCHANGED <<cpres, cpfch, cpcc, cpimp, cpcopy, cpphase>>

(* ChangeCouplingMetric.calculate: result["coupling"], result["file_changes"] *)
ComputeCoupling ==
  /\ cpphase = "build"
  /\ cpres' = ChangeCoupling(cpcommits)
  /\ cpfch' = FileNamesOf(cpcommits)
  /\ cpphase' = "computed"
  /\ UNCHANGED <<cpcommits, cpcc, cpimp, cpcopy>>

(* ChangeCouplingMetric.analyze_impact of either copy on the current     *)
(* changes cc (the two calculate methods are the same)                    *)
AnalyzeCoupling ==
  /\ cpphase = "computed"
  /\ \E cc \in SUBSET KFiles, copy \in Copies :
       /\ cpcc' = cc
       /\ cpcopy' = copy
       /\ cpimp' = IF copy = "git_metrics" THEN CouplingImpact(cc, cpres, cpfch, PairFirst(cpcommits))
                    ELSE GitsectCouplingImpact(cc, cpres, cpfch, PairFirst(cpcommits))
  /\ cpphase' = "done"
  /\ UNCHANGED <<cpcommits, cpres, cpfch>>

(* ---------------------------------------------------------------------- *)
(* DeveloperOwnershipMetric and KnowledgeDistributionMetric run twice on  *)
(* the same commits, in two interpreters: each iterates the author sets  *)
(* in the order of its own string hashes.                                 *)
(* ---------------------------------------------------------------------- *)
MaxOwnCommits == 3
OwnAuthors == <<"u1", "u2", "u3">>
(* a known author or the next new one *)
AuthorChoices(cs) ==
  {OwnAuthors[i] : i \in 1..Min(Cardinality(AuthorsOf(cs)) + 1, Len(OwnAuthors))}

(* calculate of both metrics in one interpreter *)
OwnershipRun(cs, dom) ==
  [dom |-> dom, own |-> DeveloperOwnership(cs, dom), team |-> KnowledgeResult(cs, dom)]

VARIABLES ocommits, ores, ores2, ophase

ownVars == <<ocommits, ores, ores2, ophase>>

OwnIdle == ocommits = <<>> /\ ores = <<>> /\ ores2 = <<>> /\ ophase = "idle"

OwnInit == ocommits = <<>> /\ ores = <<>> /\ ores2 = <<>> /\ ophase = "build"

(* commits are appended in order of author, then file set: the results  *)
(* depend on the commit order only through the tie order, which          *)
(* DominantChoices leaves open                                            *)
OwnKey(c) ==
  100 * (CHOOSE i \in 1..Len(OwnAuthors) : OwnAuthors[i] = c.author)
    + SumSeq([k \in DOMAIN c.files |-> 2 ^ FileRank[c.files[k].filename]])

AddOwnCommit ==
  /\ ophase = "build"
  /\ Len(ocommits) < MaxOwnCommits
  /\ \E a \in AuthorChoices(ocommits), S \in CpFileSets :
       LET c == [author |-> a, files |-> SetToFiles(S)]
       IN /\ IF ocommits = <<>> THEN TRUE ELSE OwnKey(ocommits[Len(ocommits)]) <= OwnKey(c)
          /\ ocommits' = Append(ocommits, c)
  /\ UNCHANGED <<ores, ores2, ophase>>

RunOwnership ==
  /\ ophase = "build"
  /\ \E dom \in DominantChoices(ocommits) : ores' = OwnershipRun(ocommits, dom)
  /\ ophase' = "ran"
  /\ UNCHANGED <<ocommits, ores2>>

RerunOwnership ==
  /\ ophase = "ran"
  /\ \E dom \in DominantChoices(ocommits) : ores2' = OwnershipRun(ocommits, dom)
  /\ ophase' = "rerun"
  /\ UNCHANGED <<ocommits, ores>>

(* ---------------------------------------------------------------------- *)
(* _calculate_bus_factor on a team's owned-file counts                     *)
(* (src/src/git_metrics/metrics/knowledge_distribution.py 81-83, 111-128)  *)
(* ---------------------------------------------------------------------- *)
(* Every file has exactly one dominant author, so the owned counts of the *)
(* authors add up to the number of files.  An author owning no file has   *)
(* contribution 0 and sorts after all the others, where the loop never    *)
(* arrives (the shares of the others reach 0.5 first); the team holds the  *)
(* authors owning at least one file.                                       *)
MaxBusFiles == 12

VARIABLES bteam, bbf, bphase

busVars == <<bteam, bbf, bphase>>

BusIdle == bteam = <<>> /\ bbf = 0 /\ bphase = "idle"

BusInit == bteam = <<>> /\ bbf = 0 /\ bphase = "build"

(* one more author, owning c of the files *)
AddBusAuthor ==
  /\ bphase = "build"
  /\ \E c \in 1..(MaxBusFiles - SumSeq(bteam)) : bteam' = Append(bteam, c)
  /\ UNCHANGED <<bbf, bphase>>

(* _calculate_bus_factor: contributions owned / len(all_files), sorted    *)
(* descending, accumulated until cumulative >= 0.5                         *)
CalculateBusFactor ==
  /\ bphase = "build"
  /\ bteam # <<>>
  /\ bbf' = BusLoop(SortDesc({<<i, bteam[i]>> : i \in DOMAIN bteam}), <<>>, 0, SumSeq(bteam))
  /\ bphase' = "computed"
  /\ UNCHANGED bteam

CacheIdle ==
  /\ cache = [k \in Keys |-> Absent] /\ clock = 0 /\ events = <<>> /\ vcsCount = 0

vars == <<descs, cpu, raw, slices, wdone, wout, consumed, result, ppc,
          cache, clock, events, vcsCount, dlines, changes, dpc,
          pactive, preq, presults, pmr, pimpacts, pcalled, pcrash,
          calcRaises, impRaises, pphase,
          mscen, mcommits, mcc, mtot, mres, mimpact, mall, mres2, mphase,
          kcommits, kprev, kres, kdom, kphase,
          acfg, acoll, aphase,
          chcommits, chres, chcc, chtot, chimp, chphase,
          cpcommits, cpres, cpfch, cpcc, cpimp, cpphase,
          ocommits, ores, ores2, ophase,
          bteam, bbf, bphase>>

ParseNext == (FanOut \/ WorkerFinish \/ Gather) /\ UNCHANGED <<cacheVars, diffVars, pluginVars, metricVars, knowVars, anaVars, churnVars, coupVars, ownVars, busVars>>

ParseSpecInit == ParseInit /\ CacheIdle /\ DiffIdle /\ PluginIdle /\ MetricIdle /\ KnowledgeIdle /\ AnalyzerIdle /\ ChurnIdle /\ CoupIdle /\ OwnIdle /\ BusIdle

ParseSpec == ParseSpecInit /\ [][ParseNext]_vars

CacheNext == (CollectHistory \/ SaveToCacheCall \/ LegacyCollectHistory \/ LegacySaveToCache \/ ClearCache \/ Advance) /\ UNCHANGED <<parseVars, diffVars, pluginVars, metricVars, knowVars, anaVars, churnVars, coupVars, ownVars, busVars>>

CacheSpecInit == CacheInit /\ ParseIdle /\ DiffIdle /\ PluginIdle /\ MetricIdle /\ KnowledgeIdle /\ AnalyzerIdle /\ ChurnIdle /\ CoupIdle /\ OwnIdle /\ BusIdle

CacheSpec == CacheSpecInit /\ [][CacheNext]_vars

DiffNext == (AnalyzeCurrentChanges \/ DiffCommandFails) /\ UNCHANGED <<parseVars, cacheVars, pluginVars, metricVars, knowVars, anaVars, churnVars, coupVars, ownVars, busVars>>

DiffSpecInit == DiffInit /\ ParseIdle /\ CacheIdle /\ PluginIdle /\ MetricIdle /\ KnowledgeIdle /\ AnalyzerIdle /\ ChurnIdle /\ CoupIdle /\ OwnIdle /\ BusIdle

DiffSpec == DiffSpecInit /\ [][DiffNext]_vars

PluginNext == (ActivatePlugins \/ CalculateMetrics \/ AnalyzeImpact)
                /\ UNCHANGED <<parseVars, cacheVars, diffVars, metricVars, knowVars, anaVars, churnVars, coupVars, ownVars, busVars>>

PluginSpecInit == PluginInit /\ ParseIdle /\ CacheIdle /\ DiffIdle /\ MetricIdle /\ KnowledgeIdle /\ AnalyzerIdle /\ ChurnIdle /\ CoupIdle /\ OwnIdle /\ BusIdle

PluginSpec == PluginSpecInit /\ [][PluginNext]_vars

MetricNext == (ComputeMetrics \/ AnalyzeMetricImpacts \/ RecomputeReordered)
                /\ UNCHANGED <<parseVars, cacheVars, diffVars, pluginVars, knowVars, anaVars, churnVars, coupVars, ownVars, busVars>>

MetricSpecInit == MetricInit /\ ParseIdle /\ CacheIdle /\ DiffIdle /\ PluginIdle /\ KnowledgeIdle /\ AnalyzerIdle /\ ChurnIdle /\ CoupIdle /\ OwnIdle /\ BusIdle

MetricSpec == MetricSpecInit /\ [][MetricNext]_vars

ScenarioNext == (CollectScenario \/ ComputeMetrics \/ AnalyzeMetricImpacts)
                  /\ UNCHANGED <<parseVars, cacheVars, diffVars, pluginVars, knowVars, anaVars, churnVars, coupVars, ownVars, busVars>>

ScenarioSpecInit == ScenarioInit /\ ParseIdle /\ CacheIdle /\ DiffIdle /\ PluginIdle /\ KnowledgeIdle /\ AnalyzerIdle /\ ChurnIdle /\ CoupIdle /\ OwnIdle /\ BusIdle

ScenarioSpec == ScenarioSpecInit /\ [][ScenarioNext]_vars

KnowledgeNext == (AddKCommit \/ ComputeKnowledge \/ NextRun)
                   /\ UNCHANGED <<parseVars, cacheVars, diffVars, pluginVars, metricVars, anaVars, churnVars, coupVars, ownVars, busVars>>

KnowledgeSpecInit == KnowledgeInit /\ ParseIdle /\ CacheIdle /\ DiffIdle /\ PluginIdle /\ MetricIdle /\ AnalyzerIdle /\ ChurnIdle /\ CoupIdle /\ OwnIdle /\ BusIdle

KnowledgeSpec == KnowledgeSpecInit /\ [][KnowledgeNext]_vars

AnalyzerNext == ConstructAnalyzer
                  /\ UNCHANGED <<parseVars, cacheVars, diffVars, pluginVars, metricVars, knowVars, churnVars, coupVars, ownVars, busVars>>

AnalyzerSpecInit == AnalyzerInit /\ ParseIdle /\ CacheIdle /\ DiffIdle /\ PluginIdle /\ MetricIdle
                    /\ KnowledgeIdle /\ ChurnIdle /\ CoupIdle /\ OwnIdle /\ BusIdle

ChurnNext == (AddChurnCommit \/ ComputeChurn \/ AnalyzeChurn)
               /\ UNCHANGED <<parseVars, cacheVars, diffVars, pluginVars, metricVars, knowVars, anaVars, coupVars, ownVars, busVars>>

ChurnSpecInit == ChurnInit /\ ParseIdle /\ CacheIdle /\ DiffIdle /\ PluginIdle /\ MetricIdle
                 /\ KnowledgeIdle /\ AnalyzerIdle /\ CoupIdle /\ OwnIdle /\ BusIdle

ChurnSpec == ChurnSpecInit /\ [][ChurnNext]_vars

CoupNext == (AddCoupCommit \/ ComputeCoupling \/ AnalyzeCoupling)
              /\ UNCHANGED <<parseVars, cacheVars, diffVars, pluginVars, metricVars, knowVars, anaVars,
                             churnVars, ownVars, busVars>>

CoupSpecInit == CoupInit /\ ParseIdle /\ CacheIdle /\ DiffIdle /\ PluginIdle /\ MetricIdle
                /\ KnowledgeIdle /\ AnalyzerIdle /\ ChurnIdle /\ OwnIdle /\ BusIdle

CoupSpec == CoupSpecInit /\ [][CoupNext]_vars

OwnNext == (AddOwnCommit \/ RunOwnership \/ RerunOwnership)
             /\ UNCHANGED <<parseVars, cacheVars, diffVars, pluginVars, metricVars, knowVars, anaVars,
                            churnVars, coupVars, busVars>>

OwnSpecInit == OwnInit /\ ParseIdle /\ CacheIdle /\ DiffIdle /\ PluginIdle /\ MetricIdle
               /\ KnowledgeIdle /\ AnalyzerIdle /\ ChurnIdle /\ CoupIdle /\ BusIdle

OwnSpec == OwnSpecInit /\ [][OwnNext]_vars

AnalyzerSpec == AnalyzerSpecInit /\ [][AnalyzerNext]_vars

BusNext == (AddBusAuthor \/ CalculateBusFactor)
             /\ UNCHANGED <<parseVars, cacheVars, diffVars, pluginVars, metricVars, knowVars, anaVars,
                            churnVars, coupVars, ownVars>>

BusSpecInit == BusInit /\ ParseIdle /\ CacheIdle /\ DiffIdle /\ PluginIdle /\ MetricIdle
               /\ KnowledgeIdle /\ AnalyzerIdle /\ ChurnIdle /\ CoupIdle /\ OwnIdle

BusSpec == BusSpecInit /\ [][BusNext]_vars

(* ---------------------------------------------------------------------- *)
(* Properties of parse_commit_data                                         *)
(* ---------------------------------------------------------------------- *)
WellFormedIdx == {i \in 1..Len(descs) : descs[i].wf}
ResultHashes == {result[j].hash : j \in 1..Len(result)}

(* the raw chunks (data.split("COMMIT_START\n")[1:]) that have a          *)
(* COMMIT_END line, and the first line (hash) of each                      *)
ChunkHasEnd(x) == EndLine \in Range(SplitC(x, "\n"))
WFChunks == SelectSeq(raw, ChunkHasEnd)
WFChunkHashes == [i \in 1..Len(WFChunks) |-> SplitC(WFChunks[i], "\n")[1]]
ResultHashSeq == [j \in 1..Len(result) |-> result[j].hash]

(* C5 (claim as stated): the chunk list is cut into                       *)
(* min(available_parallelism, chunk_count) contiguous slices whose sizes   *)
(* differ by at most one, every chunk lies in exactly one slice, and after *)
(* the fan-in the result holds each well-formed chunk's commit exactly     *)
(* once (the records' hashes are those of the chunks with a COMMIT_END    *)
(* line, in order).                                                        *)
C5_SlicePartition ==
  ppc # "fetched" =>
    /\ Len(slices) = Min(cpu, Len(raw))
    /\ \A i, j \in 1..Len(slices) : Len(slices[i]) - Len(slices[j]) <= 1
    /\ FlattenSeq(slices) = raw
    /\ (ppc = "done" =>
          /\ ResultHashSeq = WFChunkHashes)

C5_Witness ==
  ppc = "done" /\ cpu > Len(raw) /\ Len(raw) >= 1

ExpectedFiles(d) ==
  [k \in 1..Len(d.ns) |->
     [filename |-> Chars(d.ns[k][2]), status |-> Chars(d.ns[k][1]),
      additions |-> IF d.ns[k][1] = "D" THEN 0 ELSE 1,
      deletions |-> IF d.ns[k][1] = "A" THEN 0 ELSE 1]]

C7_FilesFromNameStatus ==
  ppc = "done" =>
    \A j \in 1..Len(result) :
      \E i \in WellFormedIdx :
        /\ result[j].hash = Chars(Hashes[i])
        /\ result[j].author = Chars("a") /\ result[j].date = Chars("d")
        /\ result[j].message = Chars(descs[i].subj)
        /\ result[j].files = ExpectedFiles(descs[i])

(* C8: every FileChange produced has counts fixed by its status code:     *)
(* 'A...' -> (1, 0), 'D...' -> (0, 1), anything else -> (1, 1).            *)
C8_CountsByStatus ==
  \A j \in 1..Len(result) :
    \A k \in 1..Len(result[j].files) :
      LET f == result[j].files[k]
      IN <<f.additions, f.deletions>> =
           CASE StartsWith(f.status, "A") -> <<1, 0>>
             [] StartsWith(f.status, "D") -> <<0, 1>>
             [] OTHER -> <<1, 1>>

C8_Witness ==
  /\ ppc = "done"
  /\ \E j \in 1..Len(result) :
       {Head(result[j].files[k].status) : k \in 1..Len(result[j].files)}
         = {"A", "D", "R"}

(* ---------------------------------------------------------------------- *)
(* Properties of the cache                                                 *)
(* ---------------------------------------------------------------------- *)
LastEvent == events[Len(events)]

(* two consecutive collect_history calls, same configuration, < 24 h apart *)
RoundTripPair(a, b) ==
  /\ a.op = "collect" /\ b.op = "collect"
  /\ a.cfg = b.cfg
  /\ b.t - a.t < CacheMaxAge

(* C1 (claim as stated): two consecutive collect_history() calls with the *)
(* same configuration within 24 hours return equal commit lists, exactly   *)
(* one git log runs across both, and the second call is a cache hit.       *)
C1_RoundTripAsStated ==
  \A i \in 1..(Len(events) - 1) :
    (RoundTripPair(events[i], events[i + 1])
       /\ events[i].outcome # "crash" /\ events[i + 1].outcome # "crash")
      => /\ events[i + 1].res = events[i].res
         /\ events[i].vcs + events[i + 1].vcs = 1
         /\ events[i + 1].outcome = "hit"

(* C1 (amended): when the first call rebuilt from git log and wrote its    *)
(* cache entry, a second call with the same configuration less than 24     *)
(* hours later is a pure cache hit returning an equal list, so exactly one *)
(* git log runs across both calls.                                          *)
C1_RoundTrip ==
  \A i \in 1..(Len(events) - 1) :
    (RoundTripPair(events[i], events[i + 1])
       /\ events[i].outcome = "miss" /\ events[i].saved)
      => /\ events[i + 1].outcome = "hit"
         /\ events[i + 1].res = events[i].res
         /\ events[i].vcs + events[i + 1].vcs = 1

C1_Witness ==
  \E i \in 1..(Len(events) - 1) :
    /\ RoundTripPair(events[i], events[i + 1])
    /\ events[i].outcome = "miss" /\ events[i].saved
    /\ events[i + 1].outcome = "hit"
    /\ events[i + 1].t > events[i].t
    /\ events[i].cfg.mc = "all"

(* C2 (claim as stated): a collect_history call runs git log iff its     *)
(* entry is missing, stale (age >= 86400 s) or does not parse as JSON;     *)
(* otherwise it returns the cached list; it never fails on a bad entry     *)
(* and a rebuild rewrites the entry.                                       *)
NewCollect == Len(events') = Len(events) + 1 /\ events'[Len(events')].op = "collect"

C2_MissIffUnusable ==
  [][NewCollect =>
       LET ev == events'[Len(events')]
           k == KeyOf(ev.cfg)
           c == cache[k]
           r == LoadMemo(c.toks)
           usable == c.ex /\ clock - c.mtime < CacheMaxAge /\ c.kind = "json" /\ r.ok
       IN /\ ev.outcome # "crash"
          /\ usable => (ev.outcome = "hit" /\ ev.vcs = 0 /\ ev.res = r.val)
          /\ ~usable => (/\ ev.vcs = 1
                         /\ cache'[k].ex /\ cache'[k].mtime = clock + SaveLag
                         /\ LoadMemo(cache'[k].toks).val = ev.res)]_vars

(* C4: clear_cache leaves the cache empty however often it is called in a *)
(* row, and the next collect_history is a miss that runs git log.          *)
C4_ClearIdempotent ==
  /\ (Len(events) > 0 /\ LastEvent.op = "clear") => \A k \in Keys : ~cache[k].ex
  /\ \A i \in 1..(Len(events) - 1) :
       (events[i].op = "clear" /\ events[i + 1].op = "collect")
         => (events[i + 1].outcome = "miss" /\ events[i + 1].vcs = 1)

C4_Witness ==
  /\ Len(events) = 3
  /\ events[1].op = "clear" /\ events[2].op = "clear" /\ events[3].op = "collect"
  /\ vcsCount = 1

(* ---------------------------------------------------------------------- *)
(* Properties of get_current_changes                                       *)
(* ---------------------------------------------------------------------- *)
(* line i is the last line of the output naming its file *)
LastForFile(i) ==
  \A j \in (i + 1)..Len(dlines) :
    dlines[j].kind \in {"stat", "badcount"} => dlines[j].fn # dlines[i].fn

C10_MalformedSkipped ==
  dpc = "done" =>
    /\ \A i \in 1..Len(dlines) :
         (dlines[i].kind = "badcount"
            /\ \A j \in 1..Len(dlines) : dlines[j].kind = "stat" => dlines[j].fn # dlines[i].fn)
           => dlines[i].fn \notin DOMAIN changes
    /\ \A i \in 1..Len(dlines) : dlines[i].kind = "stat" => dlines[i].fn \in DOMAIN changes

(* ---------------------------------------------------------------------- *)
(* Properties of PluginManager                                             *)
(* ---------------------------------------------------------------------- *)
(* C11: calculate_metrics runs every active plugin; each plugin that      *)
(* raises gets a None entry and every other one its own result.            *)
C11_CalcIsolation ==
  pphase \in {"calculated", "impacted"} =>
    /\ DOMAIN presults = Range(pactive)
    /\ \A id \in Range(pactive) :
         presults[id] = IF id \in calcRaises THEN NullRes ELSE Res(id)

C11_Witness ==
  /\ pphase = "calculated"
  /\ \E i, j \in 1..Len(pactive) :
       i < j /\ pactive[i] \in calcRaises /\ pactive[j] \notin calcRaises

(* C12: analyze_impact asks only active ids whose result is present and   *)
(* not None, never fails on a None or missing result, and a plugin that    *)
(* raises has no impact entry while every other asked plugin's impact is   *)
(* delivered.                                                              *)
C12_ImpactIsolation ==
  pphase = "impacted" =>
    /\ ~pcrash
    /\ pcalled = {a \in Range(pactive) : a \in DOMAIN pmr /\ pmr[a] # NullRes}
    /\ DOMAIN pimpacts = pcalled \ impRaises
    /\ \A a \in DOMAIN pimpacts : pimpacts[a] = Imp(a)

C12_Witness ==
  /\ pphase = "impacted"
  /\ \E a \in Range(pactive) : a \notin DOMAIN pmr
  /\ \E a \in Range(pactive) : a \in DOMAIN pmr /\ pmr[a] # NullRes /\ a \in impRaises
  /\ \E a \in Range(pactive) : a \in DOMAIN pimpacts

(* C13: activate_plugins(ids) activates exactly the registered plugins    *)
(* named in ids (unknown ids ignored), activate_plugins(None) all of them, *)
(* and calculate_metrics then has one entry per active id.                 *)
C13_ActivationSelection ==
  pphase # "init" =>
    /\ Range(pactive) = IF preq.isNone THEN Registered
                        ELSE Range(preq.ids) \cap Registered
    /\ Len(pactive) = Cardinality(Range(pactive))
    /\ pphase \in {"calculated", "impacted"} => DOMAIN presults = Range(pactive)

C13_Witness ==
  /\ pphase = "calculated"
  /\ ~preq.isNone
  /\ UnknownId \in Range(preq.ids)
  /\ Range(pactive) # {}

(* ---------------------------------------------------------------------- *)
(* Properties of the metric computators                                    *)
(* ---------------------------------------------------------------------- *)
MetricsComputed == mphase \in {"computed", "done"}
NamesIn(c) == {c.files[k].filename : k \in DOMAIN c.files}
CommitsTouchingBoth(cs, f1, f2) ==
  Cardinality({i \in DOMAIN cs : f1 \in NamesIn(cs[i]) /\ f2 \in NamesIn(cs[i])})

(* C14 (claim as stated): each co-changed unordered pair is reported once *)
(* (so coupling(f1,f2) = coupling(f2,f1)), its count is the number of     *)
(* commits touching both files, and its jaccard is                        *)
(* count / (changes(f1) + changes(f2) - count), within [0,1], or 0 when   *)
(* that union is 0.                                                        *)
C14_CouplingContract ==
  MetricsComputed =>
    /\ \A p, q \in DOMAIN mres.coupling : {p[1], p[2]} = {q[1], q[2]} => p = q
    /\ \A p \in DOMAIN mres.coupling :
         LET r == mres.coupling[p]
             u == ChangesOf(mcommits, p[1]) + ChangesOf(mcommits, p[2]) - r.count
         IN /\ r.count = CommitsTouchingBoth(mcommits, p[1], p[2])
            /\ IF u > 0 THEN r.jn * u = r.count * r.jd /\ 0 <= r.jn /\ r.jn <= r.jd
                        ELSE r.jn = 0

XY == <<"x.py", "y.py">>

(* C15 (claim as stated): collecting the 3-commit history (A adds x.py,   *)
(* B modifies x.py and y.py, C modifies y.py) and running ChangeCoupling  *)
(* reports the pair (x.py, y.py) with count 1 and jaccard 1/3.            *)
C15_ScenarioCoupling ==
  MetricsComputed =>
    /\ XY \in DOMAIN mres.coupling
    /\ mres.coupling[XY].count = 1
    /\ 3 * mres.coupling[XY].jn = mres.coupling[XY].jd

(* C16 (claim as stated): end to end, for the 3-commit history collected *)
(* by collect_history, CodeChurn reports churn(x.py) = 2 and              *)
(* churn(y.py) = 2.                                                        *)
C16_ScenarioChurnAsStated ==
  MetricsComputed =>
    /\ "x.py" \in DOMAIN mres.churn /\ mres.churn["x.py"] = 2
    /\ "y.py" \in DOMAIN mres.churn /\ mres.churn["y.py"] = 2

(* the history's y.py commits (C and B) have different authors *)
YByTwoAuthors == mscen.au[1] # mscen.au[2]

(* C17 (claim as stated): end to end, for the 3-commit history with y.py *)
(* changed once by each of two authors, DeveloperOwnership gives y.py    *)
(* ownership_ratio 0.5 and its impact reports ownership_category         *)
(* "moderate".                                                             *)
C17_ScenarioOwnershipAsStated ==
  (mphase = "done" /\ YByTwoAuthors) =>
    /\ "y.py" \in DOMAIN mres.own
    /\ 2 * mres.own["y.py"].rn = mres.own["y.py"].rd
    /\ mimpact["y.py"] = "moderate"

TouchAuthors(cs, f) == {cs[i].author : i \in {j \in DOMAIN cs : f \in NamesIn(cs[j])}}

(* C19: every file touched by exactly one author has ownership_ratio 1.0, *)
(* and the ownership impact of such a file reports ownership_category     *)
(* "exclusive".                                                            *)
C19_SingleAuthorExclusive ==
  mphase = "done" =>
    \A f \in FileNamesOf(mcommits) :
      Cardinality(TouchAuthors(mcommits, f)) = 1 =>
        /\ f \in DOMAIN mres.own
        /\ mres.own[f].rn = mres.own[f].rd
        /\ f \in mcc => mimpact[f] = "exclusive"

C19_Witness ==
  /\ mphase = "done"
  /\ \E f \in mcc \cap FileNamesOf(mcommits) :
       Cardinality(TouchAuthors(mcommits, f)) = 1 /\ ChangesOf(mcommits, f) >= 2

(* C20: KnowledgeDistribution's bus_factor is at least 1 for every commit *)
(* set with at least one author and at least one file.                    *)
C20_BusFactorPositive ==
  (MetricsComputed /\ AuthorsOf(mcommits) # {} /\ FileNamesOf(mcommits) # {}) =>
    mres.bus >= 1

C20_Witness ==
  /\ MetricsComputed
  /\ FileNamesOf(mcommits) # {}
  /\ mres.bus = 1

(* ---------------------------------------------------------------------- *)
(* Properties of KnowledgeDistributionMetric                              *)
(* ---------------------------------------------------------------------- *)
KnowledgeComputed == kphase = "computed"
HasPrevRun == kprev.risk # "none"

(* C21 (claim as stated): between two runs with the same author count,   *)
(* the one with the higher knowledge_redundancy never has the higher     *)
(* bus_factor.                                                             *)
C21_BusMonotoneAsStated ==
  (KnowledgeComputed /\ HasPrevRun /\ kprev.nauth = kres.nauth
     /\ kres.rn * kprev.rd > kprev.rn * kres.rd) =>
    kres.bus <= kprev.bus

(* C21 (corrected): bus_factor is not monotone in knowledge_redundancy;  *)
(* what holds for every commit set is that with at least one file        *)
(* 1 <= bus_factor <= author_count, and with no file bus_factor equals   *)
(* author_count and knowledge_redundancy is 0.                            *)
C21_BusBounds ==
  KnowledgeComputed =>
    IF kres.nfiles > 0 THEN 1 <= kres.bus /\ kres.bus <= kres.nauth
    ELSE kres.bus = kres.nauth /\ kres.rn = 0

C21_Witness ==
  /\ KnowledgeComputed /\ HasPrevRun /\ kprev.nauth = kres.nauth
  /\ kres.rn * kprev.rd > kprev.rn * kres.rd
  /\ kres.bus > kprev.bus
  /\ kres.nfiles > 0 /\ kprev.nfiles > 0

(* ---------------------------------------------------------------------- *)
(* Properties of _calculate_bus_factor                                     *)
(* ---------------------------------------------------------------------- *)
BusSorted == [j \in DOMAIN bteam |-> SortDesc({<<i, bteam[i]>> : i \in DOMAIN bteam})[j][2]]
BusFiles == SumSeq(bteam)

(* the k largest contributions add up to at least 1/2, in exact arithmetic *)
TopReachHalf(k) == 2 * SumSeq(SubSeq(BusSorted, 1, k)) >= BusFiles

(* C22: bus_factor is the smallest k such that the k authors with the    *)
(* largest contributions (owned files / total files) have cumulative     *)
(* contribution >= 0.5.                                                    *)
C22_SmallestK ==
  bphase = "computed" =>
    /\ 1 <= bbf /\ bbf <= Len(bteam)
    /\ TopReachHalf(bbf)
    /\ \A k \in 1..(bbf - 1) : ~TopReachHalf(k)

(* C23: when git exits non-zero (or is not found) during collect_history, *)
(* the call raises after exactly one git invocation and writes no cache   *)
(* entry.                                                                  *)
C23_VcsFailureFatal ==
  [][NewCollect /\ events'[Len(events')].err =>
       LET ev == events'[Len(events')]
       IN /\ ev.outcome = "miss"
          /\ ev.vcs = 1
          /\ vcsCount' = vcsCount + 1
          /\ ev.res = PyNone
          /\ cache' = cache]_vars

C23_Witness ==
  \E i \in 1..Len(events) :
    events[i].op = "collect" /\ events[i].err /\ cache[KeyOf(events[i].cfg)].ex

(* C24 (claim as stated): constructing a GitAnalyzer that falls back to  *)
(* the Python collector succeeds for every file_patterns value (none      *)
(* included) and yields a usable collector.                                *)
C24_FallbackConstructs ==
  (aphase = "constructed" /\ (acfg.usePy \/ ~RustAvailable)) => acoll = "ok"

(* C25: with an empty commit list or an empty current-changes map, every  *)
(* metric's calculate and analyze_impact completes without raising: the  *)
(* results are empty (zero bus_factor) for no commits, every current     *)
(* change is then a new_file, and the impacts are empty for no changes.  *)
C25_EmptyInputsNoRaise ==
  (mphase = "done" /\ (mcommits = <<>> \/ mcc = {})) =>
    /\ \A f \in mcc : mall.churn[f].err = "none" /\ mall.hot[f].err = "none"
    /\ mcommits = <<>> =>
         /\ DOMAIN mres.coupling = {} /\ DOMAIN mres.churn = {} /\ DOMAIN mres.own = {}
         /\ DOMAIN mres.hot = {} /\ DOMAIN mres.ent = {} /\ mres.bus = 0
         /\ \A f \in mcc : /\ mall.churn[f].new /\ mall.hot[f].new /\ mall.ent[f].new
                           /\ mall.coup[f].new /\ mall.know.files[f] = "new_file"
                           /\ mimpact[f] = "new_file"
    /\ mcc = {} =>
         /\ DOMAIN mimpact = {} /\ DOMAIN mall.churn = {} /\ DOMAIN mall.hot = {}
         /\ DOMAIN mall.ent = {} /\ DOMAIN mall.coup = {} /\ DOMAIN mall.know.files = {}

C25_Witness == mphase = "done" /\ mcommits = <<>> /\ mcc # {}

(* C26 (claim as stated): calculate is order-independent: on the commit   *)
(* list concatenated in reverse order every metric's result is the same *)
(* mapping, dominant authors, owned files and bus_factor included.      *)
C26_OrderIndependent ==
  mphase = "reordered" => mres2 = mres

(* C27: for each current change with history, churn_percentile is       *)
(* |{g : churn(g) <= churn(f)}| / N, in (0, 1]; risk_level is critical  *)
(* above 0.9, high above 0.8, medium above 0.6, elevated when the       *)
(* current total exceeds 30% of the historical churn, low otherwise; a  *)
(* current change without history is marked new_file.                   *)
C27_ChurnImpact ==
  chphase = "done" =>
    \A f \in chcc :
      IF f \notin DOMAIN chres THEN chimp[f].new
      ELSE /\ ~chimp[f].new /\ chimp[f].err = "none"
           /\ chimp[f].pd = Cardinality(DOMAIN chres)
           /\ chimp[f].pn = Cardinality({g \in DOMAIN chres : chres[g] <= chres[f]})
           /\ 0 < chimp[f].pn /\ chimp[f].pn <= chimp[f].pd
           /\ chimp[f].risk =
                IF 10 * chimp[f].pn > 9 * chimp[f].pd THEN "critical"
                ELSE IF 10 * chimp[f].pn > 8 * chimp[f].pd THEN "high"
                ELSE IF 10 * chimp[f].pn > 6 * chimp[f].pd THEN "medium"
                ELSE IF 10 * chtot[f] > 3 * chres[f] THEN "elevated"
                ELSE "low"

C27_Witness ==
  chphase = "done" /\ \E f \in chcc \cap DOMAIN chres : chimp[f].risk = "high"

(* the files coupled to f in the coupling result c *)
CoupledTo(c, f) ==
  {IF p[1] = f THEN p[2] ELSE p[1] : p \in {q \in DOMAIN c : f = q[1] \/ f = q[2]}}

ListFiles(l) == {l[i].file : i \in DOMAIN l}

(* C28: for each current change with history, every file coupled to it  *)
(* appears exactly once, in "modified" when it is a current change and  *)
(* in "unmodified" otherwise; each entry carries its pair's jaccard; both *)
(* lists are sorted by descending jaccard; strong_unmodified counts the  *)
(* unmodified entries with jaccard above 0.5; max_coupling is the        *)
(* largest jaccard (0 without pairs); risk_level is critical exactly when *)
(* max_coupling > 0.8 and strong_unmodified > 0.                          *)
C28_CouplingImpact ==
  cpphase = "done" =>
    \A f \in cpcc :
      IF f \notin cpfch THEN cpimp[f].new
      ELSE LET e == cpimp[f]
               co == CoupledTo(cpres, f)
               J(x) == cpres[SortPair(f, x)]
           IN /\ ~e.new
              /\ ListFiles(e.modified) = co \cap cpcc
              /\ ListFiles(e.unmodified) = co \ cpcc
              /\ Len(e.modified) + Len(e.unmodified) = Cardinality(co)
              /\ \A l \in {e.modified, e.unmodified} :
                   /\ \A i \in DOMAIN l : l[i].sn = J(l[i].file).jn /\ l[i].sd = J(l[i].file).jd
                   /\ \A i \in 1..(Len(l) - 1) : l[i + 1].sn * l[i].sd <= l[i].sn * l[i + 1].sd
              /\ e.strong = Cardinality({x \in co \ cpcc : 2 * J(x).jn > J(x).jd})
              /\ \A x \in co : J(x).jn * e.md <= e.mn * J(x).jd
              /\ (co = {} => e.mn = 0)
              /\ (co # {} => \E x \in co : J(x).jn * e.md = e.mn * J(x).jd)
              /\ (e.risk = "critical") <=> (10 * e.mn > 8 * e.md /\ e.strong > 0)

C28_Witness ==
  /\ cpphase = "done"
  /\ \E f \in cpcc \cap cpfch :
       /\ Len(cpimp[f].modified) >= 1 /\ Len(cpimp[f].unmodified) >= 1
       /\ cpimp[f].risk = "critical"

(* C29: when no commit touches a file (total files 0), every author's    *)
(* contribution is 0, the greedy loop never reaches 0.5 and bus_factor  *)
(* is the number of authors (0 without authors); with redundancy 0 the  *)
(* team risk level is then critical for at most one author, high for    *)
(* two, medium for more.                                                  *)
C29_NoFilesBusIsAuthors ==
  (KnowledgeComputed /\ kres.nfiles = 0) =>
    /\ kres.bus = Cardinality(AuthorsOf(kcommits))
    /\ kres.risk = IF kres.bus <= 1 THEN "critical"
                   ELSE IF kres.bus = 2 THEN "high"
                   ELSE "medium"

C29_Witness == KnowledgeComputed /\ kres.nfiles = 0 /\ Len(kcommits) = MaxKCommits

(* C30 (claim as stated): two runs over the same commits pick the same   *)
(* dominant_author for every file, ties included, and hence the same    *)
(* owned files and bus_factor.                                          *)
C30_DeterministicAsStated ==
  ophase = "rerun" => ores2.dom = ores.dom /\ ores2.team.bus = ores.team.bus

====
